---- MODULE Spec2Model ----
(***************************************************************************)
(* A model of anton's Plan -> Build -> Execute loop: Agent.run with its    *)
(* event relay, the EventBus, SkillBuilder.build with the SkillTester and  *)
(* the skill loader, Executor.execute_plan, the SkillRegistry and the      *)
(* SessionStore.                                                           *)
(*                                                                         *)
(* Agent.run is a coroutine: between two awaits of a collaborator it runs  *)
(* without giving the event loop a chance to run the relay task.  Each     *)
(* action below is one such segment: it starts when the awaited            *)
(* collaborator returns (or raises) and ends at the next await of a        *)
(* collaborator.  EventBus.publish awaits Queue.put on an unbounded queue, *)
(* which never suspends, so it is not a scheduling point.                  *)
(*                                                                         *)
(* Text is modelled as a sequence of one-character strings so that         *)
(* _slugify is computed, not assumed.                                      *)
(***************************************************************************)
EXTENDS Integers, Sequences, FiniteSets, TLC

VARIABLES
    mode,            \* entry point exercised: "run", "build" or "execute_plan"
    pc,              \* the await the coroutine is suspended at
    memory,          \* Agent._memory is not None
    learnings,       \* Agent._learnings is not None
    user_skills_dir, \* Agent._user_skills_dir is not None
    channel,         \* the Channel: "ok", or "broken" when its emit raises
    subscribers,     \* EventBus._subscribers: list of queues (by id)
    queues,          \* content of every asyncio.Queue created by subscribe()
    queue,           \* run's local `queue`
    relay,           \* state of relay_task
    emitted,         \* events channel.emit has been called with
    published,       \* every event handed to EventBus.publish, in order
    session_id,      \* run's local `session_id`
    sessions,        \* SessionStore: one record per session, in start order
    plan,            \* run's local `plan`
    planCalls,       \* number of Planner.plan calls made
    registry,        \* SkillRegistry._skills
    files,           \* <user_skills_dir>/<name>/skill.py, per name
    todo,            \* _build_missing_skills: specs still to iterate over
    seen,            \* _build_missing_skills: `seen`
    spec,            \* build's `spec`
    attempt,         \* build's `attempt`
    messages,        \* build's `messages`
    codeCalls,       \* number of LLMClient.code calls made by the current build
    builds,          \* history: one record per finished build() call
    results,         \* execute_plan's `results`
    stepIdx,         \* execute_plan's `i`
    invoked,         \* history: indices of the steps whose skill was invoked
    executed,        \* history: the plan handed to execute_plan
    logIdx,          \* run's position in the step-result logging loop
    summary,         \* run's local `summary`
    learned,         \* number of learnings recorded in the LearningStore
    pending,         \* exception in flight; at "done", the one the caller gets
    outcome,         \* how the entry point ended: "none", "returned", "raised"
    caught,          \* history: the exception run's `except Exception` caught
    plans,           \* history: the plans Planner.plan returned, in order
    verdicts,        \* history: TestResult.passed of each attempt of the build
    files0,          \* history: the skill files when the entry point was called
    tests,           \* history: one record per direct call of test_skill
    extraction,      \* history: how _extract_learnings went, once it returned
    taps,            \* history, per queue handed out by subscribe(): the number
                     \* of events published before its subscribe() and before
                     \* its unsubscribe() (-1 while subscribed), and what the
                     \* holder has taken from it
    pad,             \* the Scratchpad: cells, _proc, _boot_path, _venv_dir
    venvs,           \* the virtual environments made so far, by _venv_dir:
                     \* whether the directory exists, and its packages
    ran,             \* history: code blocks the subprocesses have exec'd
    log,             \* history: one record per call on the Scratchpad
    _pads,           \* ScratchpadManager._pads: name and Scratchpad, in
                     \* insertion order
    instances,       \* every Scratchpad the manager has constructed
    _history,        \* TimeEstimator._history: durations per skill name;
                     \* ChatSession._history: the messages of the conversation
    max_turns,       \* agentic_loop's `max_turns`
    turns,           \* agentic_loop: iterations of its for loop begun
    resp,            \* agentic_loop's and turn's local `response`
    tool_results,    \* agentic_loop's and turn's local `tool_results`
    returned,        \* the value the entry point returned
    tasks,           \* the get_or_create calls made as concurrent tasks:
                     \* each one's name, where it is suspended, the pad it
                     \* constructed and the pad it returned
    eta_seconds,     \* execute_plan's parameter `eta_seconds`
    elapsed          \* clock ticks since execute_plan's `total_start`

vars == <<mode, pc, memory, learnings, user_skills_dir, channel, subscribers, queues,
          queue, relay, emitted, published, session_id, sessions, plan,
          planCalls, registry, files, todo, seen, spec, attempt, messages,
          codeCalls, builds, results, stepIdx, invoked, executed, logIdx,
          summary, learned, pending, outcome, caught, plans, verdicts,
          files0, tests, extraction, taps, pad, venvs, ran, log,
          _pads, instances, _history, max_turns, turns, resp,
          tool_results, returned, tasks, eta_seconds, elapsed>>

None == "None"

----------------------------------------------------------------------------
(* Bounds of the model.                                                    *)

MaxSteps == 1        \* steps in a plan the Planner returns
MaxAgentSteps == 2   \* steps in a plan, where several runs are followed
MaxRecorded == 2     \* durations in the TimeEstimator when a run begins
MaxExecSteps == 2    \* steps of a plan handed directly to execute_plan
MaxTests == 2        \* direct calls of test_skill on one SkillTester

----------------------------------------------------------------------------
(* Text.                                                                   *)

Lower == {"a", "b", "c", "d", "e", "f", "g", "h", "i", "j", "k", "l", "m",
          "n", "o", "p", "q", "r", "s", "t", "u", "v", "w", "x", "y", "z"}
Digit == {"0", "1", "2", "3", "4", "5", "6", "7", "8", "9"}
Space == {" "}

ToLower(ch) ==
    CASE ch = "A" -> "a"
      [] ch = "B" -> "b"
      [] ch = "C" -> "c"
      [] OTHER -> ch

RECURSIVE Filter(_, _)
Filter(text, keep) ==
    IF text = <<>> THEN <<>>
    ELSE IF Head(text) \in keep
         THEN <<Head(text)>> \o Filter(Tail(text), keep)
         ELSE Filter(Tail(text), keep)

RECURSIVE Strip(_)
Strip(text) ==
    IF text = <<>> THEN <<>>
    ELSE IF Head(text) \in Space THEN Strip(Tail(text))
    ELSE IF text[Len(text)] \in Space THEN Strip(SubSeq(text, 1, Len(text) - 1))
    ELSE text

\* re.sub(r"\s+", "_", text): every maximal run of whitespace becomes one "_"
RECURSIVE Underscore(_)
Underscore(text) ==
    IF text = <<>> THEN <<>>
    ELSE IF Head(text) \in Space
         THEN IF Len(text) > 1 /\ text[2] \in Space
              THEN Underscore(Tail(text))
              ELSE <<"_">> \o Underscore(Tail(text))
         ELSE <<Head(text)>> \o Underscore(Tail(text))

\* "_".join(text.split("_")[:n]): the text up to its n-th "_"
RECURSIVE FirstParts(_, _)
FirstParts(text, n) ==
    IF text = <<>> THEN <<>>
    ELSE IF Head(text) = "_"
         THEN IF n = 1 THEN <<>> ELSE <<"_">> \o FirstParts(Tail(text), n - 1)
         ELSE <<Head(text)>> \o FirstParts(Tail(text), n)

SlugParts == 6

_slugify(text) ==
    LET lowered == [k \in 1..Len(text) |-> ToLower(text[k])]
        kept    == Filter(lowered, Lower \cup Digit \cup Space)
        joined  == Underscore(Strip(kept))
    IN  FirstParts(joined, SlugParts)

UNKNOWN == <<"u", "n", "k", "n", "o", "w", "n">>
LIST_FILES == <<"l", "i", "s", "t", "_", "f", "i", "l", "e", "s">>
RUN_COMMAND == <<"r", "u", "n", "_", "c", "o", "m", "m", "a", "n", "d">>

\* Descriptions the Planner may use: the first two differ only in case,
\* spacing and punctuation.
DescCountLines == <<"a", " ", "b">>
DescCountLines2 == <<"A", " ", " ", "b", "!">>
DescOther == <<"c">>
Task == <<"t">>

----------------------------------------------------------------------------
(* Events (events/types.py).  Every event is kept in one record shape;    *)
(* a message is kept as its parts: the fixed text, the skill name or step  *)
(* description it quotes, and the numbers it quotes.                       *)

NoneRec == [none |-> TRUE]

Msg(text, name, n, of) == [text |-> text, name |-> name, n |-> n, of |-> of]
NoMsg == Msg("", <<>>, 0, 0)

\* eta_seconds defaults to None
StatusUpdate(phase, message) ==
    [type |-> "StatusUpdate", phase |-> phase, message |-> message,
     summary |-> NoneRec, error_summary |-> None, eta_seconds |-> NoneRec]
TaskComplete(text) ==
    [type |-> "TaskComplete", phase |-> None, message |-> NoMsg,
     summary |-> text, error_summary |-> None, eta_seconds |-> NoneRec]
TaskFailed(error) ==
    [type |-> "TaskFailed", phase |-> None, message |-> NoMsg,
     summary |-> NoneRec, error_summary |-> error, eta_seconds |-> NoneRec]

\* A number of seconds that need not be whole, as the fraction num/den
Fraction(num, den) == [num |-> num, den |-> den]
WithEta(event, eta) == [event EXCEPT !.eta_seconds = eta]

----------------------------------------------------------------------------
(* TimeEstimator (core/estimator.py).  A duration is a whole number of     *)
(* seconds; a mean or a total is the fraction num/den.                     *)

EstimatorNames == {"read_file", "write_file"}

RECURSIVE SumSeq(_)
SumSeq(durations) ==
    IF durations = <<>> THEN 0 ELSE Head(durations) + SumSeq(Tail(durations))

\* estimate(skill_name): None without history, else sum / len
estimate(history, skill_name) ==
    LET durations == history[skill_name]
    IN  IF durations = <<>> THEN NoneRec
        ELSE [num |-> SumSeq(durations), den |-> Len(durations)]

\* The loop of estimate_plan over the names from position k on
RECURSIVE EstimateLoop(_, _, _, _, _)
EstimateLoop(history, skill_names, k, total, has_any) ==
    IF k > Len(skill_names)
    THEN [total |-> total, has_any |-> has_any]
    ELSE LET est == estimate(history, skill_names[k])
         IN  IF est # NoneRec
             THEN EstimateLoop(history, skill_names, k + 1,
                               [num |-> total.num * est.den
                                           + est.num * total.den,
                                den |-> total.den * est.den],
                               TRUE)
             ELSE EstimateLoop(history, skill_names, k + 1, total, has_any)

\* Variant: the total is returned whether or not a name had history
estimate_plan_total(history, skill_names) ==
    EstimateLoop(history, skill_names, 1, [num |-> 0, den |-> 1], FALSE).total

\* estimate_plan(skill_names)
estimate_plan(history, skill_names) ==
    LET end == EstimateLoop(history, skill_names, 1,
                            [num |-> 0, den |-> 1], FALSE)
    IN  IF end.has_any THEN end.total ELSE NoneRec

----------------------------------------------------------------------------
(* The state as one record, so that the statements of a segment compose.   *)

St ==
    [mode |-> mode, pc |-> pc, memory |-> memory, learnings |-> learnings,
     user_skills_dir |-> user_skills_dir, channel |-> channel,
     subscribers |-> subscribers,
     queues |-> queues, queue |-> queue, relay |-> relay,
     emitted |-> emitted, published |-> published,
     session_id |-> session_id, sessions |-> sessions, plan |-> plan,
     planCalls |-> planCalls, registry |-> registry, files |-> files,
     todo |-> todo, seen |-> seen, spec |-> spec, attempt |-> attempt,
     messages |-> messages, codeCalls |-> codeCalls, builds |-> builds,
     results |-> results, stepIdx |-> stepIdx, invoked |-> invoked,
     executed |-> executed, logIdx |-> logIdx, summary |-> summary,
     learned |-> learned, pending |-> pending, outcome |-> outcome,
     caught |-> caught, plans |-> plans, verdicts |-> verdicts,
     files0 |-> files0, tests |-> tests, extraction |-> extraction,
     taps |-> taps, pad |-> pad, venvs |-> venvs, ran |-> ran, log |-> log,
     _pads |-> _pads, instances |-> instances, _history |-> _history,
     max_turns |-> max_turns, turns |-> turns, resp |-> resp,
     tool_results |-> tool_results, returned |-> returned,
     tasks |-> tasks, eta_seconds |-> eta_seconds, elapsed |-> elapsed]

Commit(s) ==
    /\ mode' = s.mode /\ pc' = s.pc /\ memory' = s.memory
    /\ learnings' = s.learnings /\ user_skills_dir' = s.user_skills_dir
    /\ channel' = s.channel
    /\ subscribers' = s.subscribers /\ queues' = s.queues
    /\ queue' = s.queue /\ relay' = s.relay /\ emitted' = s.emitted
    /\ published' = s.published /\ session_id' = s.session_id
    /\ sessions' = s.sessions /\ plan' = s.plan
    /\ planCalls' = s.planCalls /\ registry' = s.registry
    /\ files' = s.files /\ todo' = s.todo /\ seen' = s.seen
    /\ spec' = s.spec /\ attempt' = s.attempt /\ messages' = s.messages
    /\ codeCalls' = s.codeCalls /\ builds' = s.builds
    /\ results' = s.results /\ stepIdx' = s.stepIdx
    /\ invoked' = s.invoked /\ executed' = s.executed
    /\ logIdx' = s.logIdx /\ summary' = s.summary /\ learned' = s.learned
    /\ pending' = s.pending /\ outcome' = s.outcome
    /\ caught' = s.caught /\ plans' = s.plans /\ verdicts' = s.verdicts
    /\ files0' = s.files0 /\ tests' = s.tests
    /\ extraction' = s.extraction /\ taps' = s.taps
    /\ pad' = s.pad /\ venvs' = s.venvs /\ ran' = s.ran /\ log' = s.log
    /\ _pads' = s._pads /\ instances' = s.instances
    /\ _history' = s._history
    /\ max_turns' = s.max_turns /\ turns' = s.turns
    /\ resp' = s.resp /\ tool_results' = s.tool_results
    /\ returned' = s.returned /\ tasks' = s.tasks
    /\ eta_seconds' = s.eta_seconds /\ elapsed' = s.elapsed

----------------------------------------------------------------------------
(* EventBus (events/bus.py).                                               *)

InList(list, x) == \E k \in 1..Len(list) : list[k] = x

\* Variant: publish puts the event on every queue ever handed out
PublishAll(s, event) ==
    [s EXCEPT !.queues = [q \in DOMAIN s.queues |->
                            Append(s.queues[q], event)],
              !.published = Append(@, event)]

\* publish: put the event on every registered queue
Publish(s, event) ==
    [s EXCEPT !.queues = [q \in DOMAIN s.queues |->
                            IF InList(s.subscribers, q)
                            THEN Append(s.queues[q], event)
                            ELSE s.queues[q]],
              !.published = Append(@, event)]

\* subscribe: a new queue, appended to the subscriber list
Subscribe(s) ==
    LET q == Cardinality(DOMAIN s.queues) + 1
    IN  [s EXCEPT !.queues = [x \in DOMAIN s.queues \cup {q} |->
                                IF x = q THEN <<>> ELSE s.queues[x]],
                  !.subscribers = Append(@, q),
                  !.queue = q]

\* list.remove(q): drops the first occurrence
RECURSIVE Remove(_, _)
Remove(list, x) ==
    IF list = <<>> THEN <<>>
    ELSE IF Head(list) = x THEN Tail(list)
    ELSE <<Head(list)>> \o Remove(Tail(list), x)

Unsubscribe(s, q) == [s EXCEPT !.subscribers = Remove(@, q)]

----------------------------------------------------------------------------
(* SessionStore (memory/store.py).  A session id is the session's position *)
(* in the index.                                                           *)

StartSession(s) ==
    [s EXCEPT !.sessions = Append(@, [status |-> "running",
                                      transcript |-> <<[type |-> "task"]>>,
                                      summary |-> NoneRec]),
              !.session_id = Len(s.sessions) + 1]

AppendEntry(s, id, entry) ==
    [s EXCEPT !.sessions[id].transcript = Append(@, entry)]

CompleteSession(s, id, text) ==
    [s EXCEPT !.sessions[id] =
        [status |-> "completed",
         transcript |-> Append(@.transcript,
                               [type |-> "complete", summary |-> text]),
         summary |-> text]]

\* Variant: the failure is not written to the session
FailSessionUnrecorded(s, id, error) == s

FailSession(s, id, error) ==
    [s EXCEPT !.sessions[id] =
        [status |-> "failed",
         transcript |-> Append(@.transcript,
                               [type |-> "failed", error |-> error]),
         summary |-> @.summary]]

----------------------------------------------------------------------------
(* SkillRegistry (skill/registry.py).                                      *)

(* _skills is a dict: its entries are kept in insertion order, and an      *)
(* assignment to a name it holds replaces the value where it stands.       *)

Holds(reg, name) == \E k \in 1..Len(reg) : reg[k].name = name

\* Variant: the first skill registered under a name stays
RegisterFirst(reg, skill) ==
    IF Holds(reg, skill.name) THEN reg ELSE Append(reg, skill)

\* register: self._skills[skill.name] = skill
Register(reg, skill) ==
    IF Holds(reg, skill.name)
    THEN [k \in 1..Len(reg) |->
             IF reg[k].name = skill.name THEN skill ELSE reg[k]]
    ELSE Append(reg, skill)

\* get: self._skills.get(name)
Get(reg, name) ==
    IF Holds(reg, name)
    THEN reg[CHOOSE k \in 1..Len(reg) : reg[k].name = name]
    ELSE NoneRec

\* v.get('type', '?') for each property of the schema, joined by ", "
ParamsDesc(parameters) ==
    [k \in 1..Len(parameters) |->
        [name |-> parameters[k].name,
         type |-> IF parameters[k].type = None THEN "?"
                  ELSE parameters[k].type]]

CatalogLine(text, name, description, params_desc) ==
    [text |-> text, name |-> name, description |-> description,
     params_desc |-> params_desc]

\* Variant: an empty registry gives an empty catalog
catalog_lines(reg) ==
    [k \in 1..Len(reg) |->
        CatalogLine("- ", reg[k].name, reg[k].description,
                    ParamsDesc(reg[k].parameters))]

\* catalog: the sentinel, or one line per skill joined by newlines
catalog(reg) ==
    IF reg = <<>>
    THEN <<CatalogLine("No skills available.", "", "", <<>>)>>
    ELSE [k \in 1..Len(reg) |->
             CatalogLine("- ", reg[k].name, reg[k].description,
                         ParamsDesc(reg[k].parameters))]

----------------------------------------------------------------------------
(* Skill files, the loader and the Tester.                                 *)
(* A file's content is what matters of its text: whether it can be         *)
(* executed as a module, the skills it defines, and who wrote it.          *)

NoFile == [exists |-> FALSE]

Skill(name, params, origin) ==
    [name |-> name, params |-> params, origin |-> origin]

\* load_skill_module: raises on a module that cannot be executed
LoadRaises(content) == ~content.syntax_ok
load_skill_module(content) == content.skills

_find_skill(skills, name) ==
    IF \E k \in 1..Len(skills) : skills[k].name = name
    THEN skills[CHOOSE k \in 1..Len(skills) :
                    /\ skills[k].name = name
                    /\ \A j \in 1..(k - 1) : skills[j].name # name]
    ELSE NoneRec

TestResult(passed, stage, error) ==
    [passed |-> passed, stage |-> stage, error |-> error]

\* What awaiting skill.execute may do: return a result without an "error"
\* entry in its metadata, return one whose metadata["error"] is a message,
\* or raise
SkillOutcomes == {"ok", "error", "raises"}

\* The Tester also tells apart a result whose metadata has the key "error"
\* with an empty value ("" or None)
TestOutcomes == SkillOutcomes \cup {"empty_error"}

\* Variant: the parameters of the spec are not compared with the signature
TestBeginAnyParams(content, sp) ==
    IF LoadRaises(content)
    THEN [stages |-> <<"import">>, executed |-> FALSE,
          result |-> TestResult(FALSE, "import", "load error")]
    ELSE LET skills == load_skill_module(content)
             skill  == _find_skill(skills, sp.name)
         IN  IF skills = <<>>
             THEN [stages |-> <<"import">>, executed |-> FALSE,
                   result |-> TestResult(FALSE, "import", "no skill")]
             ELSE IF skill = NoneRec
             THEN [stages |-> <<"import", "signature">>, executed |-> FALSE,
                   result |-> TestResult(FALSE, "signature", "expected name")]
             ELSE IF sp.test_inputs
             THEN [stages |-> <<"import", "signature", "execution">>,
                   executed |-> TRUE, result |-> NoneRec]
             ELSE [stages |-> <<"import", "signature">>, executed |-> FALSE,
                   result |-> TestResult(TRUE, "signature", "")]

\* test_skill up to its await of skill.execute: the stages entered, and
\* the result if it is decided there (NoneRec while it is not)
TestBegin(content, sp) ==
    IF LoadRaises(content)
    THEN [stages |-> <<"import">>, executed |-> FALSE,
          result |-> TestResult(FALSE, "import", "load error")]
    ELSE LET skills == load_skill_module(content)
             skill  == _find_skill(skills, sp.name)
         IN  IF skills = <<>>
             THEN [stages |-> <<"import">>, executed |-> FALSE,
                   result |-> TestResult(FALSE, "import", "no skill")]
             ELSE IF skill = NoneRec
             THEN [stages |-> <<"import", "signature">>, executed |-> FALSE,
                   result |-> TestResult(FALSE, "signature", "expected name")]
             ELSE IF \E p \in sp.parameters : p \notin skill.params
             THEN [stages |-> <<"import", "signature">>, executed |-> FALSE,
                   result |-> TestResult(FALSE, "signature",
                                         "missing parameter")]
             ELSE IF sp.test_inputs
             THEN [stages |-> <<"import", "signature", "execution">>,
                   executed |-> TRUE, result |-> NoneRec]
             ELSE [stages |-> <<"import", "signature">>, executed |-> FALSE,
                   result |-> TestResult(TRUE, "signature", "")]

\* test_skill after skill.execute(**spec.test_inputs): `if error:` is the
\* truth value of metadata.get("error")
TestEnd(out) ==
    IF out = "raises" THEN TestResult(FALSE, "execution", "raised")
    ELSE IF out = "error" THEN TestResult(FALSE, "execution", "returned error")
    ELSE TestResult(TRUE, "execution", "")

\* `out` is what skill.execute(**spec.test_inputs) does if it is reached
test_skill(content, sp, out) ==
    LET begun == TestBegin(content, sp)
    IN  IF begun.result # NoneRec THEN begun.result ELSE TestEnd(out)

----------------------------------------------------------------------------
(* Exceptions, by their string form.                                       *)

StartSessionError == "start_session failed"
RecallError == "memory recall failed"
PlannerError == "LLM down"
AppendError == "append failed"
CodeError == "code generation failed"
SkillError == "skill raised"
CompleteError == "complete_session failed"
EmitError == "emit failed"
CancelledError == "CancelledError"

----------------------------------------------------------------------------
(* Agent.run: the handler and the finally block.                           *)

\* finally: relay_task.cancel(); await relay_task; bus.unsubscribe(queue).
\* A relay task that already ended with the exception of channel.emit is
\* not cancelled: awaiting it re-raises that exception, past the
\* `except asyncio.CancelledError`, and unsubscribe is skipped.
\* `exc` is the exception in flight when the block is entered.
Finally(s, exc) ==
    IF s.relay = "failed"
    THEN [s EXCEPT !.pc = "done", !.outcome = "raised", !.pending = EmitError]
    ELSE [Unsubscribe(s, s.queue) EXCEPT
              !.relay = "cancelled",
              !.pc = "done",
              !.outcome = IF exc = None THEN "returned" ELSE "raised",
              !.pending = exc]

\* except Exception as exc
Handler(s, exc) ==
    IF s.memory /\ s.session_id # 0
    THEN [s EXCEPT !.pc = "fail_session", !.pending = exc, !.caught = exc]
    ELSE Finally(Publish([s EXCEPT !.caught = exc], TaskFailed(exc)), None)

\* for sr in step_results: record the duration if it is > 0
RECURSIVE RecordFrom(_, _, _)
RecordFrom(history, res, k) ==
    IF k > Len(res) THEN history
    ELSE RecordFrom(IF res[k].duration_seconds > 0
                    THEN [history EXCEPT ![res[k].skill_name] =
                              Append(@, res[k].duration_seconds)]
                    ELSE history,
                    res, k + 1)

\* Variant: every duration is recorded, a duration of 0 too
RECURSIVE RecordAllFrom(_, _, _)
RecordAllFrom(history, res, k) ==
    IF k > Len(res) THEN history
    ELSE RecordAllFrom([history EXCEPT ![res[k].skill_name] =
                            Append(@, res[k].duration_seconds)],
                       res, k + 1)

RecordAllDurations(s) ==
    [s EXCEPT !._history = RecordAllFrom(@, s.results, 1)]

RecordDurations(s) == [s EXCEPT !._history = RecordFrom(@, s.results, 1)]

\* Variant: the durations of the steps already run are recorded before the
\* exception reaches run's handler
RaiseRecorded(s, exc) ==
    IF s.mode \in {"run", "agent"} THEN Handler(RecordDurations(s), exc)
    ELSE [s EXCEPT !.pc = "done", !.outcome = "raised", !.pending = exc]

\* An exception leaving build() or execute_plan(): into run's handler, or
\* to the caller when the operation was called directly.
Raise(s, exc) ==
    IF s.mode \in {"run", "agent"} THEN Handler(s, exc)
    ELSE [s EXCEPT !.pc = "done", !.outcome = "raised", !.pending = exc]

----------------------------------------------------------------------------
(* Agent.run: from the summary to TaskComplete.                            *)

\* Variant: a status of phase "complete" is published after TaskComplete
PublishCompleteThenStatus(s) ==
    Finally(Publish(Publish(s, TaskComplete(s.summary)),
                    StatusUpdate("complete", NoMsg)), None)

PublishComplete(s) == Finally(Publish(s, TaskComplete(s.summary)), None)

AfterCompleteSession(s) ==
    IF s.learnings THEN [s EXCEPT !.pc = "extract_learnings"]
    ELSE PublishComplete(s)

\* _build_summary: one line per step result
_build_summary(p, res) ==
    [reasoning |-> p.reasoning,
     lines |-> [k \in 1..Len(res) |->
                  [index |-> res[k].step_index + 1,
                   skill_name |-> res[k].skill_name,
                   error |-> res[k].result.error,
                   output |-> res[k].result.output]]]

Summarise(s) ==
    LET s0 == RecordDurations(s)
        s1 == [s0 EXCEPT !.summary = _build_summary(s0.plan, s0.results)]
    IN  IF s1.memory /\ s1.session_id # 0
        THEN [s1 EXCEPT !.pc = "complete_session"]
        ELSE AfterCompleteSession(s1)

\* for sr in execution_result.step_results: await self._memory.append(...)
LogSteps(s) ==
    IF s.memory /\ s.session_id # 0 /\ s.results # <<>>
    THEN [s EXCEPT !.pc = "append_step", !.logIdx = 1]
    ELSE Summarise(s)

----------------------------------------------------------------------------
(* Executor.execute_plan (core/executor.py).                               *)

NoError == [text |-> "", name |-> <<>>]
SkillResult(output, error) == [output |-> output, error |-> error]
StepResult(i, name, result, duration) ==
    [step_index |-> i, skill_name |-> name, result |-> result,
     duration_seconds |-> duration]

\* A measured duration of skill.execute, in clock ticks
Durations == {1}

\* The durations told apart where the ETA arithmetic is followed: a coarse
\* clock may measure 0
CoarseDurations == {0, 1, 2}

DurationsOf(m) ==
    IF m \in {"execute_plan", "agent"} THEN CoarseDurations ELSE Durations

\* Variant: the remaining steps are counted without the step that begins
step_eta_less_one(s, i) ==
    IF i = 0 /\ s.eta_seconds # NoneRec THEN s.eta_seconds
    ELSE IF i > 0
         THEN Fraction(s.elapsed * (Len(s.executed.steps) - i - 1), i)
         ELSE NoneRec

\* step_eta of step i (0-based): the initial estimate for the first step,
\* then elapsed / i * (total_steps - i); float rounding is left out
step_eta(s, i) ==
    IF i = 0 /\ s.eta_seconds # NoneRec THEN s.eta_seconds
    ELSE IF i > 0
         THEN Fraction(s.elapsed * (Len(s.executed.steps) - i), i)
         ELSE NoneRec

\* The status published when step i begins
StepStatus(s, i) ==
    LET step == s.executed.steps[i + 1]
    IN  WithEta(StatusUpdate("executing",
                    Msg("Step", step.description, i + 1,
                        Len(s.executed.steps))),
                step_eta(s, i))

\* execute_plan returns its ExecutionResult
AfterExec(s) ==
    IF s.mode = "execute_plan"
    THEN [s EXCEPT !.pc = "done", !.outcome = "returned"]
    ELSE LogSteps(s)

\* The loop over plan.steps from step s.stepIdx (0-based) up to the next
\* await of skill.execute
RECURSIVE ExecLoop(_)
\* Variant: the loop ends at the first step whose skill is missing
ExecLoopStop(s) ==
    LET steps == s.executed.steps
        i     == s.stepIdx
    IN  IF i >= Len(steps) THEN AfterExec(s)
        ELSE LET step == steps[i + 1]
                 s1   == Publish(s, StepStatus(s, i))
             IN  IF Get(s1.registry, step.skill_name) = NoneRec
                 THEN AfterExec([s1 EXCEPT
                        !.results = Append(@, StepResult(i, step.skill_name,
                            SkillResult(None,
                               [text |-> "Skill not found",
                                name |-> step.skill_name]), 0)),
                        !.stepIdx = i + 1])
                 ELSE [s1 EXCEPT !.pc = "skill_execute",
                                 !.invoked = Append(@, i)]

ExecLoop(s) ==
    LET steps == s.executed.steps
        i     == s.stepIdx
    IN  IF i >= Len(steps) THEN AfterExec(s)
        ELSE LET step == steps[i + 1]
                 s1   == Publish(s, StepStatus(s, i))
             IN  IF Get(s1.registry, step.skill_name) = NoneRec
                 THEN ExecLoop([s1 EXCEPT
                        !.results = Append(@, StepResult(i, step.skill_name,
                            SkillResult(None,
                               [text |-> "Skill not found",
                                name |-> step.skill_name]), 0)),
                        !.stepIdx = i + 1])
                 ELSE [s1 EXCEPT !.pc = "skill_execute",
                                 !.invoked = Append(@, i)]

\* Variant: the steps without dependencies are run first
execute_plan_by_deps(s, p) ==
    LET Free(step) == step.depends_on = <<>>
        Bound(step) == step.depends_on # <<>>
        steps == SelectSeq(p.steps, Free) \o SelectSeq(p.steps, Bound)
    IN  ExecLoop([s EXCEPT !.executed = [p EXCEPT !.steps = steps],
                           !.results = <<>>, !.stepIdx = 0,
                           !.invoked = <<>>, !.elapsed = 0])

execute_plan(s, p) ==
    ExecLoop([s EXCEPT !.executed = p, !.results = <<>>, !.stepIdx = 0,
                       !.invoked = <<>>, !.elapsed = 0])

----------------------------------------------------------------------------
(* SkillBuilder.build (skill/builder.py) and Agent._build_missing_skills.  *)

MAX_ATTEMPTS == 3

SkillSpec(name, description, parameters, test_inputs) ==
    [name |-> name, description |-> description, parameters |-> parameters,
     test_inputs |-> test_inputs]

OtherName == <<"x">>

File(syntax_ok, skills, origin) ==
    [exists |-> TRUE, syntax_ok |-> syntax_ok, skills |-> skills,
     origin |-> origin]

\* What the code generator may answer for a spec.  Within Agent.run, where
\* the builder is one collaborator among several, one answer per Tester
\* stage is drawn.
CodeKinds ==
    {"syntax_error", "no_skill", "wrong_name", "missing_param", "good",
     "other_first"}
RunCodeKinds == {"syntax_error", "wrong_name", "good"}

Generated(kind, sp) ==
    CASE kind = "syntax_error" -> File(FALSE, <<>>, "llm")
      [] kind = "no_skill" -> File(TRUE, <<>>, "llm")
      [] kind = "wrong_name" ->
            File(TRUE, <<Skill(OtherName, sp.parameters, "llm")>>, "llm")
      [] kind = "missing_param" ->
            File(TRUE, <<Skill(sp.name, {}, "llm")>>, "llm")
      [] kind = "good" ->
            File(TRUE, <<Skill(sp.name, sp.parameters, "llm")>>, "llm")
      [] kind = "other_first" ->
            File(TRUE, <<Skill(OtherName, {}, "llm"),
                         Skill(sp.name, sp.parameters, "llm")>>, "llm")

\* A skill file of an earlier, working version of the skill.
ExistingFile(name) == File(TRUE, <<Skill(name, {}, "existing")>>, "existing")

WriteFile(fs, name, content) ==
    [n \in DOMAIN fs \cup {name} |-> IF n = name THEN content ELSE fs[n]]

ReadFile(fs, name) == IF name \in DOMAIN fs THEN fs[name] ELSE NoFile

BuildingMsg(sp, n) == Msg("Building skill", sp.name, n, MAX_ATTEMPTS)

\* build() up to its first await of LLMClient.code
BuildBegin(s, sp) ==
    [Publish(s, StatusUpdate("skill_building", BuildingMsg(sp, 1))) EXCEPT
        !.spec = sp,
        !.attempt = 1,
        !.messages = <<[role |-> "user", content |-> "prompt"]>>,
        !.codeCalls = 1,
        !.verdicts = <<>>,
        !.pc = "code"]

\* Re-plan with newly available skills
Replan(s) ==
    [Publish(s, StatusUpdate("planning", Msg("Re-planning", <<>>, 0, 0)))
        EXCEPT !.planCalls = @ + 1, !.pc = "plan2"]

\* The two loops of _build_missing_skills, from the next candidate on
RECURSIVE NextBuild(_)
\* Variant: no deduplication by `seen`
NextBuildAll(s) ==
    IF s.todo = <<>> THEN Replan(s)
    ELSE BuildBegin([s EXCEPT !.todo = Tail(@)], Head(s.todo))

NextBuild(s) ==
    IF s.todo = <<>> THEN Replan(s)
    ELSE LET sp == Head(s.todo)
         IN  IF sp.name \in s.seen
             THEN NextBuild([s EXCEPT !.todo = Tail(@)])
             ELSE BuildBegin([s EXCEPT !.todo = Tail(@),
                                       !.seen = @ \cup {sp.name}], sp)

\* Variant: a build that ends with None aborts the run
BuildReturnFatal(s, result) ==
    LET s1 == [s EXCEPT !.builds = Append(@, [name |-> s.spec.name,
                                              result |-> result,
                                              codeCalls |-> s.codeCalls,
                                              verdicts |-> s.verdicts]),
                        !.messages = <<>>,
                        !.attempt = 0]
    IN  IF result = NoneRec THEN Raise(s1, "build failed")
        ELSE IF s1.mode = "build"
        THEN [s1 EXCEPT !.pc = "done", !.outcome = "returned"]
        ELSE IF s1.memory /\ s1.session_id # 0
             THEN [s1 EXCEPT !.pc = "append_built"]
             ELSE NextBuild(s1)

\* build() returns `result` (a SkillInfo or None)
BuildReturn(s, result) ==
    LET s1 == [s EXCEPT !.builds = Append(@, [name |-> s.spec.name,
                                              result |-> result,
                                              codeCalls |-> s.codeCalls,
                                              verdicts |-> s.verdicts]),
                        !.messages = <<>>,
                        !.attempt = 0]
    IN  IF s1.mode = "build"
        THEN [s1 EXCEPT !.pc = "done", !.outcome = "returned"]
        ELSE IF s1.memory /\ s1.session_id # 0
             THEN [s1 EXCEPT !.pc = "append_built"]
             ELSE NextBuild(s1)

\* _extract_spec
_extract_spec(step) ==
    SkillSpec(_slugify(step.description), step.description,
              step.parameters, FALSE)

\* Variant: the unknown steps are built before the skills_to_create entries
_build_unknown_steps_first(s, unknown_steps, skills_to_create) ==
    NextBuild([s EXCEPT
        !.seen = {},
        !.todo = [k \in 1..Len(unknown_steps) |->
                     _extract_spec(unknown_steps[k])]
                 \o [k \in 1..Len(skills_to_create) |->
                       SkillSpec(_slugify(skills_to_create[k]),
                                 skills_to_create[k], {}, FALSE)]])

\* _build_missing_skills: skills_to_create first, then the unknown steps
_build_missing_skills(s, unknown_steps, skills_to_create) ==
    NextBuild([s EXCEPT
        !.seen = {},
        !.todo = [k \in 1..Len(skills_to_create) |->
                     SkillSpec(_slugify(skills_to_create[k]),
                               skills_to_create[k], {}, FALSE)]
                 \o [k \in 1..Len(unknown_steps) |->
                       _extract_spec(unknown_steps[k])]])

\* Variant: a plan with a step of any name needs building
_needs_skill_building_any(p) ==
    IF p.skills_to_create # <<>> THEN TRUE
    ELSE p.steps # <<>>

_needs_skill_building(p) ==
    IF p.skills_to_create # <<>> THEN TRUE
    ELSE \E k \in 1..Len(p.steps) : p.steps[k].skill_name = UNKNOWN

IsUnknown(step) == step.skill_name = UNKNOWN

\* Variant: no "Plan ready" status is published
AfterPlanLoggedSilent(s) ==
    IF _needs_skill_building(s.plan) /\ s.user_skills_dir
    THEN _build_missing_skills(s, SelectSeq(s.plan.steps, IsUnknown),
                               s.plan.skills_to_create)
    ELSE execute_plan(s, s.plan)

SkillNames(p) == [k \in 1..Len(p.steps) |-> p.steps[k].skill_name]

\* Variant: the plan's own estimate is preferred to the estimator's
_get_eta_plan_first(history, p) ==
    LET estimator_eta == estimate_plan(history, SkillNames(p))
    IN  IF p.estimated_time_seconds > 0
        THEN Fraction(p.estimated_time_seconds, 1)
        ELSE estimator_eta

\* _get_eta: the estimator's estimate, else the plan's own when it is > 0
_get_eta(history, p) ==
    LET estimator_eta == estimate_plan(history, SkillNames(p))
    IN  IF estimator_eta # NoneRec THEN estimator_eta
        ELSE IF p.estimated_time_seconds > 0
             THEN Fraction(p.estimated_time_seconds, 1)
             ELSE NoneRec

\* From the "Plan ready" status to the next await
AfterPlanLogged(s) ==
    LET s1 == Publish(s, WithEta(StatusUpdate("planning",
                  Msg("Plan ready", <<>>, Len(s.plan.steps), 0)),
                  _get_eta(s._history, s.plan)))
    IN  IF _needs_skill_building(s1.plan) /\ s1.user_skills_dir
        THEN _build_missing_skills(s1, SelectSeq(s1.plan.steps, IsUnknown),
                                   s1.plan.skills_to_create)
        ELSE execute_plan(s1, s1.plan)

\* Variant: the planning status is published before the discovery status
DiscoverySwapped(s) ==
    LET s1 == Publish(s, StatusUpdate("planning",
                  Msg("Analyzing task", <<>>, 0, 0)))
        s2 == Publish(s1, StatusUpdate("skill_discovery",
                  Msg("Inspecting available skills", <<>>, 0, 0)))
    IN  [s2 EXCEPT !.planCalls = @ + 1, !.pc = "plan1"]

\* Phases 1 and 2 up to the await of Planner.plan
Discovery(s) ==
    LET s1 == Publish(s, StatusUpdate("skill_discovery",
                  Msg("Inspecting available skills", <<>>, 0, 0)))
        s2 == Publish(s1, StatusUpdate("planning",
                  Msg("Analyzing task", <<>>, 0, 0)))
    IN  [s2 EXCEPT !.planCalls = @ + 1, !.pc = "plan1"]

\* Phase 0: MemoryContext.build reads both stores and may raise
MemoryRecall(s, recallOk) ==
    IF s.memory /\ s.learnings
    THEN LET s1 == Publish(s, StatusUpdate("memory_recall",
                       Msg("Loading memory context", <<>>, 0, 0)))
         IN  IF recallOk THEN Discovery(s1) ELSE Handler(s1, RecallError)
    ELSE Discovery(s)

----------------------------------------------------------------------------
(* Planner.plan (core/planner.py): the plans an LLM response may carry.    *)

SlugCountLines == _slugify(DescCountLines)

\* depends_on defaults to the empty list
PlanStep(skill_name, description, parameters) ==
    [skill_name |-> skill_name, description |-> description,
     parameters |-> parameters, depends_on |-> <<>>]

\* A step with a depends_on list (0-based step indices)
DependsOn(step, deps) == [step EXCEPT !.depends_on = deps]

StepDomain ==
    {PlanStep(LIST_FILES, DescOther, {"pattern"}),
     PlanStep(UNKNOWN, DescCountLines, {"path"}),
     PlanStep(SlugCountLines, DescCountLines, {"path"})}

\* skills_to_create of a plan: nothing, the skill of the "unknown" step
\* described in other words, or another skill
CreateDomain == {<<>>, <<DescCountLines2>>, <<DescOther>>}

SeqsUpTo(S, n) == UNION {[1..k -> S] : k \in 0..n}

\* estimated_time_seconds defaults to 0
Plan(reasoning, steps, skills_to_create) ==
    [reasoning |-> reasoning, steps |-> steps,
     skills_to_create |-> skills_to_create, estimated_time_seconds |-> 0]

Plans ==
    {Plan("r", steps, create) :
        steps \in SeqsUpTo(StepDomain, MaxSteps),
        create \in CreateDomain}

ToolCall(name, input) == [name |-> name, input |-> input]

\* An LLM response: its tool calls and its text
Response(tool_calls, content) ==
    [tool_calls |-> tool_calls, content |-> content]

TextContents == {"", "I'll just do it directly"}

\* A create_plan tool call carrying a plan, or text without a tool call
Responses ==
    {Response(<<ToolCall("create_plan", p)>>, "") : p \in Plans}
        \cup {Response(<<>>, content) : content \in TextContents}

\* The plans told apart where several runs of one Agent are followed: up
\* to MaxAgentSteps steps naming a registered skill or a missing one, with
\* or without an estimate of the Planner's own
AgentSteps ==
    {PlanStep(LIST_FILES, DescOther, {"pattern"}),
     PlanStep(SlugCountLines, DescCountLines, {"path"})}

AgentPlans ==
    {[Plan("r", steps, <<>>) EXCEPT !.estimated_time_seconds = est] :
        steps \in SeqsUpTo(AgentSteps, MaxAgentSteps), est \in {0, 3}}

AgentResponses ==
    {Response(<<ToolCall("create_plan", p)>>, "") : p \in AgentPlans}
        \cup {Response(<<>>, "")}

ResponsesOf(m) == IF m = "agent" THEN AgentResponses ELSE Responses

IsCreatePlan(tc) == tc.name = "create_plan"

\* Variant: the fallback plan asks for a skill to be built
PlannerPlanUnknown(response, task) ==
    LET calls == SelectSeq(response.tool_calls, IsCreatePlan)
    IN  IF calls # <<>> THEN calls[1].input
        ELSE Plan(IF response.content = "" THEN "Direct execution"
                  ELSE response.content,
                  <<PlanStep(UNKNOWN, task, {"command"})>>, <<>>)

\* plan: the input of the first create_plan tool call, or the fallback plan
PlannerPlan(response, task) ==
    LET calls == SelectSeq(response.tool_calls, IsCreatePlan)
    IN  IF calls # <<>> THEN calls[1].input
        ELSE [Plan(IF response.content = "" THEN "Direct execution"
                   ELSE response.content,
                   <<PlanStep(RUN_COMMAND, task, {"command"})>>, <<>>)
                 EXCEPT !.estimated_time_seconds = 5]

----------------------------------------------------------------------------
(* The actions: one per await of a collaborator, taken when it returns or  *)
(* raises.                                                                 *)

\* The awaits at which the coroutine is suspended and the event loop runs
\* other tasks: the calls of the LLM and of a skill's execute.  The methods
\* of SessionStore (memory/store.py) are coroutines that never suspend, and
\* SkillTester.test_skill suspends only in skill.execute(**spec.test_inputs).
Suspended ==
    \/ pc \in {"plan1", "code", "plan2", "skill_execute", "extract_learnings"}
    \/ pc = "test" /\ spec.test_inputs

\* Agent.run is called: subscribe, create the relay task, start the session
Run ==
    /\ mode \in {"run", "agent"} /\ pc = "start"
    /\ LET s0 == [Subscribe(St) EXCEPT !.relay = "running"]
       IN  IF s0.memory
           THEN Commit([s0 EXCEPT !.pc = "start_session"])
           ELSE Commit(MemoryRecall(s0, TRUE))

StartSessionReturns ==
    /\ pc = "start_session"
    /\ \/ \E recallOk \in BOOLEAN :
             Commit(MemoryRecall(StartSession(St), recallOk))
       \/ Commit(Handler(St, StartSessionError))

Plan1Returns ==
    /\ pc = "plan1"
    /\ \/ \E r \in ResponsesOf(mode) :
             LET s1 == [St EXCEPT !.plan = PlannerPlan(r, Task),
                                  !.plans = Append(@, PlannerPlan(r, Task))]
             IN  IF s1.memory /\ s1.session_id # 0
                 THEN Commit([s1 EXCEPT !.pc = "append_plan"])
                 ELSE Commit(AfterPlanLogged(s1))
       \/ Commit(Handler(St, PlannerError))

AppendPlanReturns ==
    /\ pc = "append_plan"
    /\ \/ Commit(AfterPlanLogged(AppendEntry(St, session_id,
                    [type |-> "plan", steps |-> Len(plan.steps)])))
       \/ Commit(Handler(St, AppendError))

\* Variant: range(1, MAX_ATTEMPTS + 2)
RetryOnceMore(s, result) ==
    LET s1 == [s EXCEPT !.messages = @ \o
                 <<[role |-> "assistant", content |-> "code"],
                   [role |-> "user", content |-> "failed validation"]>>]
    IN  IF s1.attempt <= MAX_ATTEMPTS
        THEN [Publish(s1, StatusUpdate("skill_building",
                          BuildingMsg(s1.spec, s1.attempt + 1)))
                 EXCEPT !.attempt = @ + 1, !.codeCalls = @ + 1, !.pc = "code"]
        ELSE BuildReturn(
                 Publish(s1, StatusUpdate("skill_building",
                     Msg("Failed to build", s1.spec.name, MAX_ATTEMPTS, 0))),
                 NoneRec)

\* The failure path of an attempt: extend the conversation, then the next
\* attempt or, after MAX_ATTEMPTS, the failure status and None
Retry(s, result) ==
    LET s1 == [s EXCEPT !.messages = @ \o
                 <<[role |-> "assistant", content |-> "code"],
                   [role |-> "user", content |-> "failed validation"]>>]
    IN  IF s1.attempt < MAX_ATTEMPTS
        THEN [Publish(s1, StatusUpdate("skill_building",
                          BuildingMsg(s1.spec, s1.attempt + 1)))
                 EXCEPT !.attempt = @ + 1, !.codeCalls = @ + 1, !.pc = "code"]
        ELSE BuildReturn(
                 Publish(s1, StatusUpdate("skill_building",
                     Msg("Failed to build", s1.spec.name, MAX_ATTEMPTS, 0))),
                 NoneRec)

\* Variant: the skill is returned without being registered
PassedUnregistered(s, content, result) ==
    LET s1     == Publish(s, StatusUpdate("skill_building",
                      Msg("built successfully", s.spec.name, 0, 0)))
        skills == load_skill_module(content)
        match  == _find_skill(skills, s.spec.name)
    IN  IF match # NoneRec THEN BuildReturn(s1, match)
        ELSE IF skills # <<>> THEN BuildReturn(s1, skills[1])
        ELSE Retry(s1, result)

\* Variant: the first skill of the module is registered and returned,
\* whatever its name
PassedFirstFound(s, content, result) ==
    LET s1     == Publish(s, StatusUpdate("skill_building",
                      Msg("built successfully", s.spec.name, 0, 0)))
        skills == load_skill_module(content)
    IN  IF skills # <<>>
        THEN BuildReturn([s1 EXCEPT !.registry = Register(@, skills[1])],
                         skills[1])
        ELSE Retry(s1, result)

\* The success path of an attempt: status, load, register, return
Passed(s, content, result) ==
    LET s1     == Publish(s, StatusUpdate("skill_building",
                      Msg("built successfully", s.spec.name, 0, 0)))
        skills == load_skill_module(content)
        match  == _find_skill(skills, s.spec.name)
    IN  IF match # NoneRec
        THEN BuildReturn([s1 EXCEPT !.registry = Register(@, match)], match)
        ELSE IF skills # <<>>
        THEN BuildReturn([s1 EXCEPT !.registry = Register(@, skills[1])],
                         skills[1])
        ELSE Retry(s1, result)

\* skill_path.write_text(code)
WriteSkill(s, content) ==
    [s EXCEPT !.files = WriteFile(@, s.spec.name, content), !.pc = "test"]

CodeReturns ==
    /\ pc = "code"
    /\ \/ \E kind \in IF mode = "run" THEN RunCodeKinds ELSE CodeKinds :
             Commit(WriteSkill(St, Generated(kind, spec)))
       \/ Commit(Raise(St, CodeError))

TestReturns ==
    /\ pc = "test"
    /\ \E out \in TestOutcomes :
          LET content == ReadFile(files, spec.name)
              result  == test_skill(content, spec, out)
              s1      == [St EXCEPT !.verdicts = Append(@, result.passed)]
          IN  IF result.passed
              THEN Commit(Passed(s1, content, result))
              ELSE Commit(Retry(s1, result))

AppendBuiltReturns ==
    /\ pc = "append_built"
    /\ \/ LET b == builds[Len(builds)]
          IN  Commit(NextBuild(AppendEntry(St, session_id,
                  [type |-> "skill_built", name |-> b.name,
                   success |-> b.result # NoneRec])))
       \/ Commit(Handler(St, AppendError))

\* Variant: the second plan goes through the build phase again
Plan2ReturnsRebuild ==
    /\ pc = "plan2"
    /\ \/ \E r \in Responses :
             LET s1 == [St EXCEPT !.plan = PlannerPlan(r, Task),
                                  !.plans = Append(@, PlannerPlan(r, Task))]
             IN  IF _needs_skill_building(s1.plan) /\ s1.user_skills_dir
                 THEN Commit(_build_missing_skills(s1,
                                 SelectSeq(s1.plan.steps, IsUnknown),
                                 s1.plan.skills_to_create))
                 ELSE Commit(execute_plan(s1, s1.plan))
       \/ Commit(Handler(St, PlannerError))

Plan2Returns ==
    /\ pc = "plan2"
    /\ \/ \E r \in Responses :
             LET s1 == [St EXCEPT !.plan = PlannerPlan(r, Task),
                                  !.plans = Append(@, PlannerPlan(r, Task))]
             IN  Commit(execute_plan(s1, s1.plan))
       \/ Commit(Handler(St, PlannerError))

\* results.append(StepResult(...)) after skill.execute returned
StepDone(s, out, d) ==
    LET step == s.executed.steps[s.stepIdx + 1]
        res  == IF out = "ok" THEN SkillResult("out", NoError)
                ELSE SkillResult(None, [text |-> "skill error", name |-> <<>>])
    IN  ExecLoop([s EXCEPT
            !.results = Append(@, StepResult(s.stepIdx, step.skill_name, res, d)),
            !.stepIdx = @ + 1,
            !.elapsed = @ + d])

SkillExecuteReturns ==
    /\ pc = "skill_execute"
    /\ \/ \E out \in SkillOutcomes \ {"raises"}, d \in DurationsOf(mode) :
             Commit(StepDone(St, out, d))
       \/ Commit(Raise(St, SkillError))

AppendStepReturns ==
    /\ pc = "append_step"
    /\ \/ LET sr == results[logIdx]
              s1 == AppendEntry(St, session_id,
                        [type |-> "step", index |-> sr.step_index,
                         skill |-> sr.skill_name, error |-> sr.result.error])
          IN  IF logIdx < Len(results)
              THEN Commit([s1 EXCEPT !.logIdx = @ + 1])
              ELSE Commit(Summarise([s1 EXCEPT !.logIdx = 0]))
       \/ Commit(Handler(St, AppendError))

CompleteSessionReturns ==
    /\ pc = "complete_session"
    /\ \/ Commit(AfterCompleteSession(CompleteSession(St, session_id, summary)))
       \/ Commit(Handler(St, CompleteError))

\* What may happen inside _extract_learnings: LLMClient.code raises, the
\* answer is not JSON, it is JSON but not a list, its items lack a key, the
\* LearningStore raises on record, or an item is recorded
Extractions ==
    {"llm_error", "bad_json", "not_list", "missing_keys", "record_error",
     "recorded"}

\* _extract_learnings: every exception is swallowed
_extract_learnings(s, how) ==
    [s EXCEPT !.learned = IF how = "recorded" THEN @ + 1 ELSE @,
              !.extraction = how]

\* Variant: the exceptions of the extraction reach run's handler
ExtractDoneStrict(s, how) ==
    IF how \in {"llm_error", "bad_json", "record_error"}
    THEN Handler([s EXCEPT !.extraction = how], "extraction failed")
    ELSE PublishComplete(_extract_learnings(s, how))

\* await self._extract_learnings(summary), then TaskComplete
ExtractDone(s, how) == PublishComplete(_extract_learnings(s, how))

ExtractLearningsReturns ==
    /\ pc = "extract_learnings"
    /\ \E how \in Extractions : Commit(ExtractDone(St, how))

\* fail_session is taken to return: the handler's own recording succeeds
FailSessionReturns ==
    /\ pc = "fail_session"
    /\ Commit(Finally(Publish(FailSession(St, session_id, pending),
                              TaskFailed(pending)), None))

\* The relay task: event = await queue.get(); await channel.emit(event).
\* It runs only while run is suspended in an await.
RelayEmit ==
    /\ mode = "run" /\ Suspended
    /\ relay = "running" /\ queues[queue] # <<>>
    /\ Commit([St EXCEPT !.emitted = Append(@, Head(queues[queue])),
                         !.queues[queue] = Tail(@),
                         !.relay = IF channel = "ok" THEN "running"
                                   ELSE "failed"])

\* The task running Agent.run is cancelled while suspended in an await
Cancel ==
    /\ mode = "run" /\ Suspended
    /\ Commit(Finally(St, CancelledError))

\* SkillBuilder.build(spec) is called directly
BuildCall ==
    /\ mode = "build" /\ pc = "start"
    /\ Commit(BuildBegin(St, spec))

\* Executor.execute_plan(plan) is called directly
ExecCall ==
    /\ mode = "execute_plan" /\ pc = "start"
    /\ Commit(execute_plan(St, plan))

----------------------------------------------------------------------------
(* Initial states and specifications.                                      *)

Builtin == <<Skill(LIST_FILES, {"pattern"}, "builtin")>>

EmptyFiles == [n \in {} |-> NoFile]

\* An earlier version of the skill: its file and its registry entry
InitSkills(existing) ==
    /\ registry = IF existing
                  THEN Register(Builtin, ExistingFile(SlugCountLines).skills[1])
                  ELSE Builtin
    /\ files = IF existing
               THEN WriteFile(EmptyFiles, SlugCountLines,
                              ExistingFile(SlugCountLines))
               ELSE EmptyFiles

InitFrame ==
    /\ pc = "start"
    /\ subscribers = <<>> /\ queues = <<>> /\ queue = 0 /\ relay = "none"
    /\ emitted = <<>> /\ published = <<>>
    /\ session_id = 0 /\ sessions = <<>>
    /\ planCalls = 0
    /\ todo = <<>> /\ seen = {}
    /\ attempt = 0 /\ messages = <<>> /\ codeCalls = 0 /\ builds = <<>>
    /\ results = <<>> /\ stepIdx = 0 /\ invoked = <<>> /\ executed = NoneRec
    /\ logIdx = 0 /\ summary = NoneRec /\ learned = 0
    /\ pending = None /\ outcome = "none"
    /\ caught = None /\ plans = <<>> /\ verdicts = <<>>
    /\ files0 = files /\ tests = <<>> /\ extraction = None /\ taps = <<>>
    /\ pad = NoneRec /\ venvs = <<>> /\ ran = 0 /\ log = <<>>
    /\ _pads = <<>> /\ instances = <<>>
    /\ max_turns = 0 /\ turns = 0 /\ resp = NoneRec
    /\ tool_results = <<>> /\ returned = NoneRec
    /\ tasks = <<>>
    /\ elapsed = 0

InitLocals ==
    /\ InitFrame
    /\ _history = [name \in EstimatorNames |-> <<>>]
    /\ eta_seconds = NoneRec

\* The skill names a plan of the Planner may carry
RunNames == {LIST_FILES, UNKNOWN, SlugCountLines, RUN_COMMAND}

\* The TimeEstimator of a new Agent
NoHistory == [name \in RunNames |-> <<>>]

Init ==
    /\ mode = "run"
    /\ memory \in BOOLEAN /\ learnings \in BOOLEAN
    /\ user_skills_dir \in BOOLEAN
    /\ channel \in {"ok", "broken"}
    /\ InitSkills(FALSE)
    /\ plan = NoneRec /\ spec = NoneRec
    /\ InitFrame
    /\ _history = NoHistory /\ eta_seconds = NoneRec

Next ==
    \/ Run \/ StartSessionReturns \/ Plan1Returns \/ AppendPlanReturns
    \/ CodeReturns \/ TestReturns \/ AppendBuiltReturns \/ Plan2Returns
    \/ SkillExecuteReturns \/ AppendStepReturns \/ CompleteSessionReturns
    \/ ExtractLearningsReturns \/ FailSessionReturns \/ RelayEmit \/ Cancel

Spec == Init /\ [][Next]_vars

\* Agent.run with collaborators that return or raise without suspending, as
\* the AsyncMock collaborators of the test suite do: the relay task gets no
\* turn before it is cancelled and no cancellation can be delivered.
InitSeq == Init /\ channel = "ok"

NextSeq ==
    \/ Run \/ StartSessionReturns \/ Plan1Returns \/ AppendPlanReturns
    \/ CodeReturns \/ TestReturns \/ AppendBuiltReturns \/ Plan2Returns
    \/ SkillExecuteReturns \/ AppendStepReturns \/ CompleteSessionReturns
    \/ ExtractLearningsReturns \/ FailSessionReturns

SpecSeq == InitSeq /\ [][NextSeq]_vars

\* Several runs, one after the other, on one Agent without a session store:
\* its TimeEstimator and its registry live on, the locals of run start
\* anew.  The queues and the events of the earlier runs are dropped.  An
\* Agent with a session store is followed for one run.
RECURSIVE TotalRecorded(_, _)
TotalRecorded(history, names) ==
    IF names = {} THEN 0
    ELSE LET name == CHOOSE x \in names : TRUE
         IN  Len(history[name]) + TotalRecorded(history, names \ {name})

RunAgain ==
    /\ mode = "agent" /\ pc = "done" /\ ~memory
    /\ TotalRecorded(_history, RunNames) <= MaxRecorded
    /\ Commit([St EXCEPT
          !.pc = "start", !.subscribers = <<>>, !.queues = <<>>,
          !.queue = 0, !.relay = "none", !.emitted = <<>>,
          !.published = <<>>, !.session_id = 0, !.plan = NoneRec,
          !.planCalls = 0, !.results = <<>>, !.stepIdx = 0,
          !.invoked = <<>>, !.executed = NoneRec, !.logIdx = 0,
          !.summary = NoneRec, !.pending = None, !.outcome = "none",
          !.caught = None, !.plans = <<>>, !.elapsed = 0])

InitAgent ==
    /\ mode = "agent"
    /\ memory \in BOOLEAN /\ learnings = FALSE /\ user_skills_dir = FALSE
    /\ channel = "ok"
    /\ InitSkills(FALSE)
    /\ plan = NoneRec /\ spec = NoneRec
    /\ InitFrame
    /\ _history = NoHistory /\ eta_seconds = NoneRec

NextAgent ==
    \/ Run \/ StartSessionReturns \/ Plan1Returns \/ AppendPlanReturns
    \/ SkillExecuteReturns \/ AppendStepReturns \/ CompleteSessionReturns
    \/ FailSessionReturns \/ RunAgain

SpecAgent == InitAgent /\ [][NextAgent]_vars

BuildSpecs ==
    {SkillSpec(SlugCountLines, DescCountLines, params, inputs) :
        params \in {{}, {"path"}}, inputs \in BOOLEAN}

InitBuild ==
    /\ mode = "build"
    /\ memory = FALSE /\ learnings = FALSE /\ user_skills_dir = TRUE
    /\ channel = "ok"
    /\ \E existing \in BOOLEAN : InitSkills(existing)
    /\ plan = NoneRec /\ spec \in BuildSpecs
    /\ InitLocals

NextBuildSpec == BuildCall \/ CodeReturns \/ TestReturns

SpecBuild == InitBuild /\ [][NextBuildSpec]_vars

\* depends_on as the caller may give it: nothing, or the step at index 1,
\* which for the first step is the step after it
DepsDomain == {<<>>, <<1>>}

ExecSteps == {DependsOn(step, deps) : step \in StepDomain, deps \in DepsDomain}

ExecPlans == {Plan("r", steps, <<>>) : steps \in SeqsUpTo(ExecSteps, MaxExecSteps)}

\* eta_seconds as the caller may give it: nothing, or an estimate
EtaInputs == {NoneRec, Fraction(7, 1)}

InitExec ==
    /\ mode = "execute_plan"
    /\ memory = FALSE /\ learnings = FALSE /\ user_skills_dir = FALSE
    /\ channel = "ok"
    /\ \E existing \in BOOLEAN : InitSkills(existing)
    /\ plan \in ExecPlans /\ spec = NoneRec
    /\ InitFrame
    /\ _history = [name \in EstimatorNames |-> <<>>]
    /\ eta_seconds \in EtaInputs

NextExec == ExecCall \/ SkillExecuteReturns

SpecExec == InitExec /\ [][NextExec]_vars

\* SkillTester.test_skill(path, spec) is called directly, on a file of any
\* kind the generator may write
TestCall ==
    /\ mode = "test_skill" /\ pc = "start" /\ Len(tests) < MaxTests
    /\ \E sp \in BuildSpecs, kind \in CodeKinds :
          LET content == Generated(kind, sp)
              begun   == TestBegin(content, sp)
          IN  Commit([St EXCEPT
                  !.spec = sp,
                  !.tests = Append(@, [content |-> content, spec |-> sp,
                                       stages |-> begun.stages,
                                       executed |-> begun.executed,
                                       out |-> None,
                                       result |-> begun.result]),
                  !.pc = IF begun.result = NoneRec THEN "test_execute"
                         ELSE "start"])

\* skill.execute(**spec.test_inputs) returns or raises inside test_skill
TestExecuteReturns ==
    /\ mode = "test_skill" /\ pc = "test_execute"
    /\ \E out \in TestOutcomes :
          Commit([St EXCEPT !.tests[Len(tests)].out = out,
                            !.tests[Len(tests)].result = TestEnd(out),
                            !.pc = "start"])

InitTest ==
    /\ mode = "test_skill"
    /\ memory = FALSE /\ learnings = FALSE /\ user_skills_dir = FALSE
    /\ channel = "ok"
    /\ InitSkills(FALSE)
    /\ plan = NoneRec /\ spec = NoneRec
    /\ InitLocals

NextTest == TestCall \/ TestExecuteReturns

SpecTest == InitTest /\ [][NextTest]_vars

----------------------------------------------------------------------------
(* The EventBus driven directly: subscribe, publish, unsubscribe and the   *)
(* holders of the queues taking events, in any interleaving.               *)

MaxPublished == 3
QueueIds == {1, 2}
ValueError == "ValueError"

BusEvents ==
    {StatusUpdate("planning", Msg("hi", <<>>, 0, 0)),
     TaskComplete([reasoning |-> "ok", lines |-> <<>>])}

\* bus.subscribe()
BusSubscribe ==
    /\ mode = "bus" /\ Len(queues) < Cardinality(QueueIds)
    /\ Commit([Subscribe(St) EXCEPT
          !.taps = Append(@, [subscribed_at |-> Len(published),
                              unsubscribed_at |-> -1,
                              received |-> <<>>])])

\* await bus.publish(event): the queues are unbounded, put never suspends
BusPublish ==
    /\ mode = "bus" /\ Len(published) < MaxPublished
    /\ \E event \in BusEvents : Commit(Publish(St, event))

\* bus.unsubscribe(queue): list.remove raises ValueError for a queue that
\* is not in the list
BusUnsubscribe ==
    /\ mode = "bus"
    /\ \E q \in DOMAIN queues :
          IF InList(subscribers, q)
          THEN Commit([Unsubscribe(St, q) EXCEPT
                  !.taps[q].unsubscribed_at = Len(published)])
          ELSE Commit([St EXCEPT !.caught = ValueError])

\* queue.get_nowait() by the holder of a queue that is not empty
BusGet ==
    /\ mode = "bus"
    /\ \E q \in DOMAIN queues :
          /\ queues[q] # <<>>
          /\ Commit([St EXCEPT
                !.taps[q].received = Append(@, Head(queues[q])),
                !.queues[q] = Tail(@)])

InitBus ==
    /\ mode = "bus"
    /\ memory = FALSE /\ learnings = FALSE /\ user_skills_dir = FALSE
    /\ channel = "ok"
    /\ InitSkills(FALSE)
    /\ plan = NoneRec /\ spec = NoneRec
    /\ InitLocals

NextBus == BusSubscribe \/ BusPublish \/ BusUnsubscribe \/ BusGet

SpecBus == InitBus /\ [][NextBus]_vars

----------------------------------------------------------------------------
(* Scratchpad (scratchpad.py): one pad of the ScratchpadManager, its        *)
(* subprocess running _BOOT_SCRIPT, and its virtual environment.  One call  *)
(* is in flight at a time.                                                  *)

MaxCalls == 4

TimeoutMsg == "Cell timed out. Process killed - state lost. Use reset to restart."
NotRunningMsg == "Scratchpad process is not running. Use reset to restart."
NameErrorTrace == "Traceback: NameError: name is not defined"
ExitedMsg == "Process exited unexpectedly."

Cell(code, stdout, stderr, error) ==
    [code |-> code, stdout |-> stdout, stderr |-> stderr, error |-> error]

\* The code of a cell: `name = value`, `print(name)`, a loop that never
\* ends, nothing but white space, or code that ends the process (os._exit)
Code(op, name, value) == [op |-> op, name |-> name, value |-> value]
Codes ==
    {Code("assign", "x", 1), Code("assign", "x", 2), Code("print", "x", 0),
     Code("hang", "", 0), Code("blank", "", 0), Code("exit", "", 0)}

Defined(namespace, name) == \E b \in namespace : b.name = name
ValueOf(namespace, name) == (CHOOSE b \in namespace : b.name = name).value

\* One turn of the read-execute loop of _BOOT_SCRIPT on `code`: the
\* namespace afterwards, whether exec was called, whether the process is
\* still there, and the result written back (NoneRec when none is)
BootLoop(namespace, code) ==
    CASE code.op = "blank" ->
            [namespace |-> namespace, exec |-> FALSE, exits |-> FALSE,
             result |-> [stdout |-> <<>>, stderr |-> <<>>, error |-> None]]
      [] code.op = "assign" ->
            [namespace |-> {b \in namespace : b.name # code.name}
                              \cup {[name |-> code.name,
                                     value |-> code.value]},
             exec |-> TRUE, exits |-> FALSE,
             result |-> [stdout |-> <<>>, stderr |-> <<>>, error |-> None]]
      [] code.op = "print" ->
            [namespace |-> namespace, exec |-> TRUE, exits |-> FALSE,
             result |->
                IF Defined(namespace, code.name)
                THEN [stdout |-> <<ValueOf(namespace, code.name)>>,
                      stderr |-> <<>>, error |-> None]
                ELSE [stdout |-> <<>>, stderr |-> <<>>,
                      error |-> NameErrorTrace]]
      [] code.op = "exit" ->
            [namespace |-> {}, exec |-> TRUE, exits |-> TRUE,
             result |-> NoneRec]
      [] OTHER ->
            [namespace |-> namespace, exec |-> TRUE, exits |-> FALSE,
             result |-> NoneRec]

\* self._proc is not None and self._proc.returncode is None
Running(p) == p._proc # NoneRec /\ p._proc.alive

\* When the parent learns of the exit of its subprocess: before the call at
\* hand goes on ("prompt"), or not yet ("late")
Timings == {"prompt", "late"}

\* proc.kill(): the process is gone, and its namespace with it
Killed(proc) ==
    [proc EXCEPT !.alive = FALSE, !.gone = TRUE, !.namespace = {}]

\* _ensure_venv: a new environment unless the pad has one
_ensure_venv(s) ==
    IF s.pad._venv_dir # 0 THEN s
    ELSE [s EXCEPT !.venvs = Append(@, [exists |-> TRUE, packages |-> {}]),
                   !.pad._venv_dir = Len(s.venvs) + 1]

\* start: the boot script is written, the subprocess launched with the
\* python of the environment
start(s) ==
    LET s1 == _ensure_venv(s)
    IN  [s1 EXCEPT !.pad._boot_path = TRUE,
                   !.pad._proc = [alive |-> TRUE, gone |-> FALSE,
                                  python |-> s1.pad._venv_dir,
                                  namespace |-> {}]]

\* _stop_process: kill the subprocess, delete the boot script, keep the venv
_stop_process(s) ==
    [s EXCEPT !.pad._proc = NoneRec, !.pad._boot_path = FALSE]

\* Variant: the timeout leaves the subprocess alive
TimedOutAlive(s, code) ==
    [s EXCEPT !.pad.cells = Append(@, Cell(code, <<>>, <<>>, TimeoutMsg))]

\* execute, asyncio.TimeoutError branch
TimedOut(s, code) ==
    [s EXCEPT !.pad._proc = Killed(@),
              !.pad.cells = Append(@, Cell(code, <<>>, <<>>, TimeoutMsg))]

\* _read_result meets the end of the subprocess's output
Exited(s, code, timing) ==
    [s EXCEPT !.pad._proc.gone = TRUE,
              !.pad._proc.namespace = {},
              !.pad._proc.alive = (timing = "late"),
              !.pad.cells = Append(@, Cell(code, <<>>, <<>>, ExitedMsg))]

\* execute(code): the pad afterwards; the returned Cell is the last of
\* cells.  The process may be gone with returncode still None: stdin.write
\* and drain then raise, or the write is swallowed and _read_result meets
\* the end of the output.
execute(s, code, timing) ==
    LET s0 == [s EXCEPT !.outcome = "returned"]
    IN  IF ~Running(s0.pad)
        THEN [s0 EXCEPT !.pad.cells =
                          Append(@, Cell(code, <<>>, <<>>, NotRunningMsg))]
        ELSE IF s0.pad._proc.gone
        THEN IF timing = "late" THEN [s0 EXCEPT !.outcome = "raised"]
             ELSE Exited(s0, code, "prompt")
        ELSE LET turn == BootLoop(s0.pad._proc.namespace, code)
                 s1   == [s0 EXCEPT !.pad._proc.namespace = turn.namespace,
                                    !.ran = IF turn.exec THEN @ + 1 ELSE @]
             IN  IF turn.exits THEN Exited(s1, code, timing)
                 ELSE IF turn.result = NoneRec THEN TimedOut(s1, code)
                 ELSE [s1 EXCEPT !.pad.cells =
                          Append(@, Cell(code, turn.result.stdout,
                                         turn.result.stderr,
                                         turn.result.error))]

\* Variant: reset clears the cells and keeps the subprocess
ResetCellsOnly(s) == [s EXCEPT !.pad.cells = <<>>]

\* Variant: reset starts over in a new environment
ResetNewVenv(s) ==
    start([_stop_process(s) EXCEPT !.pad.cells = <<>>,
                                   !.pad._venv_dir = 0])

\* reset
reset(s) == start([_stop_process(s) EXCEPT !.pad.cells = <<>>])

\* Variant: close forgets the cells too
close_clearing(s) ==
    LET s1 == _stop_process([s EXCEPT !.pad.cells = <<>>])
    IN  IF s1.pad._venv_dir # 0
        THEN [s1 EXCEPT !.venvs[s1.pad._venv_dir].exists = FALSE,
                        !.pad._venv_dir = 0]
        ELSE s1

\* close: the venv directory is removed
close(s) ==
    LET s1 == _stop_process(s)
    IN  IF s1.pad._venv_dir # 0
        THEN [s1 EXCEPT !.venvs[s1.pad._venv_dir].exists = FALSE,
                        !.pad._venv_dir = 0]
        ELSE s1

PackageLists == {{}, {"pkg"}}
InstallOutcomes == {"ok", "failed", "timeout"}

\* install_packages(packages): pip in the pad's environment
install_packages(s, packages, how) ==
    IF packages = {} THEN s
    ELSE LET s1 == _ensure_venv(s)
         IN  IF how = "ok"
             THEN [s1 EXCEPT !.venvs[s1.pad._venv_dir].packages =
                                 @ \cup packages]
             ELSE s1

Logged(s, op, code) ==
    [s EXCEPT !.log = Append(@, [op |-> op, code |-> code, ran |-> s.ran,
                                 raised |-> op = "execute"
                                            /\ s.outcome = "raised",
                                 lost |-> ~Running(s.pad)
                                          \/ s.pad._proc.gone,
                                 cell |-> IF op = "execute"
                                             /\ s.outcome # "raised"
                                          THEN s.pad.cells[Len(s.pad.cells)]
                                          ELSE NoneRec])]

NoCode == Code("", "", 0)

\* ScratchpadManager.get_or_create on a new name
GetOrCreate ==
    /\ mode = "pad" /\ pad = NoneRec
    /\ Commit(start([St EXCEPT !.pad = [cells |-> <<>>, _proc |-> NoneRec,
                                        _boot_path |-> FALSE,
                                        _venv_dir |-> 0]]))

PadExecute ==
    /\ mode = "pad" /\ pad # NoneRec /\ Len(log) < MaxCalls
    /\ \E code \in Codes, timing \in Timings :
          Commit(Logged(execute(St, code, timing), "execute", code))

PadReset ==
    /\ mode = "pad" /\ pad # NoneRec /\ Len(log) < MaxCalls
    /\ Commit(Logged(reset(St), "reset", NoCode))

PadClose ==
    /\ mode = "pad" /\ pad # NoneRec /\ Len(log) < MaxCalls
    /\ Commit(Logged(close(St), "close", NoCode))

PadInstall ==
    /\ mode = "pad" /\ pad # NoneRec /\ Len(log) < MaxCalls
    /\ \E packages \in PackageLists, how \in InstallOutcomes :
          Commit(Logged(install_packages(St, packages, how), "install",
                        NoCode))

InitPad ==
    /\ mode = "pad"
    /\ memory = FALSE /\ learnings = FALSE /\ user_skills_dir = FALSE
    /\ channel = "ok"
    /\ InitSkills(FALSE)
    /\ plan = NoneRec /\ spec = NoneRec
    /\ InitLocals

NextPad == GetOrCreate \/ PadExecute \/ PadReset \/ PadClose \/ PadInstall

SpecPad == InitPad /\ [][NextPad]_vars

----------------------------------------------------------------------------
(* ScratchpadManager (scratchpad.py): named pads, called one at a time.    *)

PadNames == {"a", "b"}

\* Scratchpad(name=name, ...): no cells, no process, no environment
NewScratchpad ==
    [cells |-> <<>>, _proc |-> NoneRec, _boot_path |-> FALSE, _venv_dir |-> 0]

\* name in self._pads, and self._pads[name] as a position in `instances`
HasPad(pads, name) == \E k \in 1..Len(pads) : pads[k].name = name
PadOf(pads, name) ==
    pads[CHOOSE k \in 1..Len(pads) : pads[k].name = name].pad

\* Variant: get_or_create makes a new pad on every call
get_or_create_anew(s, name) ==
    LET s1 == start([s EXCEPT !.pad = NewScratchpad])
        kept == SelectSeq(s._pads, LAMBDA e : e.name # name)
    IN  [s1 EXCEPT !.instances = Append(@, s1.pad),
                   !._pads = Append(kept, [name |-> name,
                                           pad |-> Len(s.instances) + 1]),
                   !.pad = s.pad]

\* get_or_create(name): a new pad is constructed, started and kept
get_or_create(s, name) ==
    IF HasPad(s._pads, name) THEN s
    ELSE LET s1 == start([s EXCEPT !.pad = NewScratchpad])
         IN  [s1 EXCEPT !.instances = Append(@, s1.pad),
                        !._pads = Append(@, [name |-> name,
                                             pad |-> Len(s.instances) + 1]),
                        !.pad = s.pad]

\* pad.close() on the pad at position i
ClosePad(s, i) ==
    LET s1 == close([s EXCEPT !.pad = s.instances[i]])
    IN  [s1 EXCEPT !.instances[i] = s1.pad, !.pad = s.pad]

\* remove(name)
remove(s, name) ==
    IF ~HasPad(s._pads, name) THEN s
    ELSE [ClosePad(s, PadOf(s._pads, name)) EXCEPT
             !._pads = SelectSeq(@, LAMBDA e : e.name # name)]

\* close_all(): every pad of _pads is closed, from position k on, and
\* _pads is cleared
RECURSIVE CloseFrom(_, _)
CloseFrom(s, k) ==
    IF k > Len(s._pads) THEN [s EXCEPT !._pads = <<>>]
    ELSE CloseFrom(ClosePad(s, s._pads[k].pad), k + 1)

close_all(s) == CloseFrom(s, 1)

\* One call of the manager, with what get_or_create returned (0 otherwise)
\* and the number of pads constructed so far
ManagerLogged(s, op, name) ==
    [s EXCEPT !.log = Append(@, [op |-> op, name |-> name,
                                 pad |-> IF op = "get_or_create"
                                         THEN PadOf(s._pads, name) ELSE 0,
                                 made |-> Len(s.instances)])]

ManagerGetOrCreate ==
    /\ mode = "manager" /\ Len(log) < MaxCalls
    /\ \E name \in PadNames :
          Commit(ManagerLogged(get_or_create(St, name), "get_or_create",
                               name))

ManagerRemove ==
    /\ mode = "manager" /\ Len(log) < MaxCalls
    /\ \E name \in PadNames :
          Commit(ManagerLogged(remove(St, name), "remove", name))

ManagerCloseAll ==
    /\ mode = "manager" /\ Len(log) < MaxCalls
    /\ Commit(ManagerLogged(close_all(St), "close_all", ""))

InitManager ==
    /\ mode = "manager"
    /\ memory = FALSE /\ learnings = FALSE /\ user_skills_dir = FALSE
    /\ channel = "ok"
    /\ InitSkills(FALSE)
    /\ plan = NoneRec /\ spec = NoneRec
    /\ InitLocals

NextManager == ManagerGetOrCreate \/ ManagerRemove \/ ManagerCloseAll

SpecManager == InitManager /\ [][NextManager]_vars

----------------------------------------------------------------------------
(* The TimeEstimator called directly.                                      *)

Seconds == {0, 1}

\* record(skill_name, duration_seconds)
EstimatorRecord ==
    /\ mode = "estimator" /\ Len(log) < MaxCalls
    /\ \E name \in EstimatorNames, d \in Seconds :
          Commit([St EXCEPT
              !._history[name] = Append(@, d),
              !.log = Append(@, [op |-> "record", names |-> <<name>>,
                                 result |-> NoneRec])])

\* estimate_plan(skill_names) on a list of known and unknown names
EstimatorEstimatePlan ==
    /\ mode = "estimator" /\ Len(log) < MaxCalls
    /\ \E names \in SeqsUpTo(EstimatorNames, 2) :
          Commit([St EXCEPT
              !.log = Append(@, [op |-> "estimate_plan", names |-> names,
                                 result |-> estimate_plan(_history,
                                                          names)])])

InitEstimator ==
    /\ mode = "estimator"
    /\ memory = FALSE /\ learnings = FALSE /\ user_skills_dir = FALSE
    /\ channel = "ok"
    /\ InitSkills(FALSE)
    /\ plan = NoneRec /\ spec = NoneRec
    /\ InitLocals

NextEstimator == EstimatorRecord \/ EstimatorEstimatePlan

SpecEstimator == InitEstimator /\ [][NextEstimator]_vars

----------------------------------------------------------------------------
(* The SkillRegistry called directly, from an empty registry.              *)

SkillInfo(name, description, parameters) ==
    [name |-> name, description |-> description, parameters |-> parameters]

\* The "properties" of a schema, in their order; a property may lack "type"
Schemas ==
    {<<>>, <<[name |-> "name", type |-> "string"],
             [name |-> "n", type |-> None]>>}

SkillInfos ==
    {SkillInfo(name, description, parameters) :
        name \in {"dup", "greet"}, description \in {"first", "second"},
        parameters \in Schemas}

RegistryNames == {"dup", "greet", "nonexistent"}

\* reg.register(skill)
RegistryRegister ==
    /\ mode = "registry" /\ Len(log) < MaxCalls
    /\ \E skill \in SkillInfos :
          Commit([St EXCEPT
              !.registry = Register(@, skill),
              !.log = Append(@, [op |-> "register", name |-> skill.name,
                                 skill |-> skill, result |-> NoneRec])])

\* reg.get(name)
RegistryGet ==
    /\ mode = "registry" /\ Len(log) < MaxCalls
    /\ \E name \in RegistryNames :
          Commit([St EXCEPT
              !.log = Append(@, [op |-> "get", name |-> name,
                                 skill |-> NoneRec,
                                 result |-> Get(registry, name)])])

\* reg.catalog()
RegistryCatalog ==
    /\ mode = "registry" /\ Len(log) < MaxCalls
    /\ Commit([St EXCEPT
          !.log = Append(@, [op |-> "catalog", name |-> "",
                             skill |-> NoneRec,
                             result |-> catalog(registry)])])

InitRegistry ==
    /\ mode = "registry"
    /\ memory = FALSE /\ learnings = FALSE /\ user_skills_dir = FALSE
    /\ channel = "ok"
    /\ registry = <<>> /\ files = EmptyFiles
    /\ plan = NoneRec /\ spec = NoneRec
    /\ InitLocals

NextRegistry == RegistryRegister \/ RegistryGet \/ RegistryCatalog

SpecRegistry == InitRegistry /\ [][NextRegistry]_vars

----------------------------------------------------------------------------
(* Planner.plan called directly, on responses with and without a           *)
(* create_plan tool call.                                                  *)

MaxPlannerCalls == 2

PlannerResponses ==
    Responses
        \cup {Response(<<ToolCall("other", NoneRec)>>, content) :
                 content \in TextContents}
        \cup {Response(<<ToolCall("other", NoneRec),
                         ToolCall("create_plan", p)>>, "") : p \in Plans}

PlannerCall ==
    /\ mode = "planner" /\ Len(log) < MaxPlannerCalls
    /\ \E r \in PlannerResponses :
          Commit([St EXCEPT
              !.planCalls = @ + 1,
              !.log = Append(@, [op |-> "plan", response |-> r,
                                 result |-> PlannerPlan(r, Task)])])

InitPlanner ==
    /\ mode = "planner"
    /\ memory = FALSE /\ learnings = FALSE /\ user_skills_dir = FALSE
    /\ channel = "ok"
    /\ InitSkills(FALSE)
    /\ plan = NoneRec /\ spec = NoneRec
    /\ InitLocals

NextPlanner == PlannerCall

SpecPlanner == InitPlanner /\ [][NextPlanner]_vars

----------------------------------------------------------------------------
(* Properties of Agent.run.                                                *)

\* C1: Agent.run never raises to its caller (the cancellation of run itself
\* aside): an exception of a phase is caught once, the session the run
\* started, if any, is marked failed with the exception's string form, and
\* TaskFailed carrying that string is published.
C1_RunNeverRaises ==
    (mode = "run" /\ pc = "done") =>
        /\ pending # CancelledError => outcome = "returned"
        /\ caught # None =>
              /\ InList(published, TaskFailed(caught))
              /\ session_id # 0 =>
                    LET session == sessions[session_id]
                    IN  /\ session.status = "failed"
                        /\ session.transcript[Len(session.transcript)] =
                               [type |-> "failed", error |-> caught]

\* C2: when Agent.run has finished, channel.emit has been called with every
\* event published on the bus during the run, the final TaskComplete or
\* TaskFailed included, in publish order.  Stated for the runs that favour
\* it most: the channel works and run returns.
C2_RelayForwardsAll ==
    (mode = "run" /\ pc = "done" /\ channel = "ok" /\ outcome = "returned") =>
        emitted = published

\* C3: whenever Agent.run has ended, by success, by the failure of a
\* collaborator (channel.emit inside the relay included) or by cancellation,
\* the relay task is no longer running and the queue run subscribed is no
\* longer registered on the bus.
C3_CleanupAlways ==
    (mode = "run" /\ pc = "done") =>
        /\ relay # "running"
        /\ ~InList(subscribers, queue)

C5_PhaseOrder ==
    mode = "run" =>
        LET n == Len(published)
            Built(k) == \E j \in 1..(k - 1) :
                            published[j].phase = "skill_building"
            Rank(k) ==
                LET e == published[k]
                IN  CASE e.type # "StatusUpdate" -> 6
                      [] e.phase = "memory_recall" -> 0
                      [] e.phase = "skill_discovery" -> 1
                      [] e.phase = "planning" -> IF Built(k) THEN 4 ELSE 2
                      [] e.phase = "skill_building" -> 3
                      [] e.phase = "executing" -> 5
                      [] OTHER -> 7
        IN  /\ \A k \in 1..n : Rank(k) # 7
            /\ \A k \in 1..(n - 1) :
                  /\ Rank(k) <= Rank(k + 1)
                  /\ published[k].type = "StatusUpdate"

\* C5 witness: a run that went through every phase and completed
C5_Witness ==
    /\ mode = "run" /\ pc = "done"
    /\ Len(published) > 0
    /\ published[Len(published)].type = "TaskComplete"
    /\ published[1].phase = "memory_recall"
    /\ \E i, j, k \in 1..Len(published) :
          /\ i < j /\ j < k
          /\ published[i].phase = "skill_building"
          /\ published[j].phase = "planning"
          /\ published[k].phase = "executing"

----------------------------------------------------------------------------
(* Properties of SkillBuilder.build.                                       *)

\* C7: build() never makes more than 3 code-generation calls, and when every
\* generated code fails the Tester it makes exactly 3 and returns None.
C7_ThreeAttempts ==
    mode = "build" =>
        /\ codeCalls <= 3
        /\ (/\ pc = "done" /\ outcome = "returned"
            /\ \A k \in 1..Len(verdicts) : ~verdicts[k]) =>
              /\ codeCalls = 3 /\ Len(verdicts) = 3
              /\ builds = <<[name |-> spec.name, result |-> NoneRec,
                             codeCalls |-> 3, verdicts |-> verdicts]>>

\* C7 witness: three attempts failed and build returned None
C7_Witness ==
    /\ mode = "build" /\ pc = "done" /\ outcome = "returned"
    /\ verdicts = <<FALSE, FALSE, FALSE>>
    /\ codeCalls = 3 /\ builds[1].result = NoneRec

\* C8: a build() in which every attempt fails testing leaves the skill file
\* as it was before the build: same content, or still no file.
C8_FailedBuildKeepsFile ==
    (/\ mode = "build" /\ pc = "done" /\ outcome = "returned"
     /\ \A k \in 1..Len(verdicts) : ~verdicts[k]) =>
        ReadFile(files, spec.name) = ReadFile(files0, spec.name)

\* C9: build() stops at the first attempt k whose code passes the Tester:
\* k is between 1 and 3, exactly k code-generation calls were made, the
\* success status is published, and the returned skill is the one
\* registry.get(spec.name) returns.
C9_FirstPassWins ==
    (mode = "build" /\ \E k \in 1..Len(verdicts) : verdicts[k]) =>
        LET k == Len(verdicts)
        IN  /\ \A j \in 1..(k - 1) : ~verdicts[j]
            /\ 1 <= k /\ k <= 3
            /\ codeCalls = k
            /\ pc = "done" /\ outcome = "returned"
            /\ InList(published, StatusUpdate("skill_building",
                         Msg("built successfully", spec.name, 0, 0)))
            /\ Len(builds) = 1
            /\ builds[1].result # NoneRec
            /\ builds[1].result.name = spec.name
            /\ Get(registry, spec.name) = builds[1].result

\* C9 witness: the third attempt passed, replacing an earlier version of
\* the skill in the registry
C9_Witness ==
    /\ mode = "build" /\ pc = "done"
    /\ verdicts = <<FALSE, FALSE, TRUE>>
    /\ files0 # EmptyFiles
    /\ Get(registry, spec.name).origin = "llm"

----------------------------------------------------------------------------
(* Properties of Executor.execute_plan.                                    *)

\* C10: execute_plan does not raise because of a missing skill: such a step
\* yields a StepResult with output None, the error "Skill not found: <name>"
\* and duration 0, the steps after it are still executed, and the result
\* holds one StepResult per step, in plan order, step_index its position.
C10_MissingSkill ==
    (mode = "execute_plan" /\ executed # NoneRec) =>
        LET steps == executed.steps
            Missing(k) == Get(registry, steps[k].skill_name) = NoneRec
        IN  /\ Len(results) <= Len(steps)
            /\ \A k \in 1..Len(results) :
                  /\ results[k].step_index = k - 1
                  /\ results[k].skill_name = steps[k].skill_name
                  /\ Missing(k) =>
                        results[k] =
                            StepResult(k - 1, steps[k].skill_name,
                                SkillResult(None,
                                    [text |-> "Skill not found",
                                     name |-> steps[k].skill_name]), 0)
                  /\ ~Missing(k) => InList(invoked, k - 1)
            /\ (pc = "done" /\ outcome = "returned") =>
                  Len(results) = Len(steps)
            /\ (pc = "done" /\ outcome = "raised") =>
                  pending = SkillError /\ ~Missing(stepIdx + 1)

\* C10 witness: the first of two steps names a missing skill and the second
\* step's skill was invoked all the same
C10_Witness ==
    /\ mode = "execute_plan" /\ pc = "done" /\ outcome = "returned"
    /\ Len(executed.steps) = 2
    /\ Get(registry, executed.steps[1].skill_name) = NoneRec
    /\ results[1].result.error.text = "Skill not found"
    /\ results[1].duration_seconds = 0
    /\ invoked = <<1>> /\ Len(results) = 2

\* C11: execute_plan runs the steps one after the other in list order,
\* whatever their depends_on: when the skill of a step is invoked every
\* earlier step has its result, no later step has begun, and the status
\* "Step i/N: <description>" of that step is already published; the
\* executing statuses are those of steps 1, 2, ... of the plan given.
C11_SequentialInOrder ==
    (mode = "execute_plan" /\ executed # NoneRec) =>
        LET steps == plan.steps
            n     == Len(steps)
            Status(k) == StatusUpdate("executing",
                             Msg("Step", steps[k].description, k, n))
        IN  /\ \A k \in 1..Len(published) :
                  /\ k <= n
                  /\ published[k] = WithEta(Status(k),
                                            published[k].eta_seconds)
            /\ \A j, k \in 1..Len(invoked) : j < k => invoked[j] < invoked[k]
            /\ \A k \in 1..Len(invoked) :
                  /\ invoked[k] < Len(published)
                  /\ \/ invoked[k] < Len(results)
                     \/ /\ k = Len(invoked) /\ invoked[k] = stepIdx
                        /\ pc \in {"skill_execute", "done"}
            /\ pc = "skill_execute" =>
                  /\ Len(invoked) > 0 /\ invoked[Len(invoked)] = stepIdx
                  /\ Len(results) = stepIdx
                  /\ Len(published) = stepIdx + 1
            /\ \A k \in 1..Len(results) :
                  results[k].skill_name = steps[k].skill_name

\* C11 witness: the first step names the second in depends_on, and the two
\* skills were invoked in list order all the same
C11_Witness ==
    /\ mode = "execute_plan" /\ pc = "done" /\ outcome = "returned"
    /\ Len(plan.steps) = 2
    /\ plan.steps[1].depends_on = <<1>> /\ plan.steps[2].depends_on = <<>>
    /\ plan.steps[1].skill_name # plan.steps[2].skill_name
    /\ invoked = <<0, 1>> /\ Len(results) = 2

----------------------------------------------------------------------------
(* Properties of SkillTester.test_skill.                                   *)

\* C12: test_skill goes through import, signature, execution in that order
\* and stops at the first failing stage: a file that cannot be loaded or
\* defines no skill fails at "import" and reaches no later stage; a file
\* without the requested skill name, or whose skill lacks a parameter of the
\* spec, fails at "signature" and its skill is never executed.
C12_StageOrder ==
    mode = "test_skill" =>
        \A k \in 1..Len(tests) :
            LET t  == tests[k]
                c  == t.content
                sp == t.spec
                Named == {j \in 1..Len(c.skills) : c.skills[j].name = sp.name}
                first == CHOOSE j \in Named : \A i \in Named : j <= i
            IN  /\ t.stages \in {<<"import">>, <<"import", "signature">>,
                                 <<"import", "signature", "execution">>}
                /\ t.executed <=> t.stages[Len(t.stages)] = "execution"
                /\ (t.result # NoneRec /\ ~t.result.passed) =>
                      t.result.stage = t.stages[Len(t.stages)]
                /\ (~c.syntax_ok \/ c.skills = <<>>) =>
                      /\ t.stages = <<"import">>
                      /\ t.result # NoneRec /\ ~t.result.passed
                      /\ t.result.stage = "import"
                /\ (/\ c.syntax_ok /\ c.skills # <<>>
                    /\ \/ Named = {}
                       \/ \E q \in sp.parameters :
                              q \notin c.skills[first].params) =>
                      /\ t.stages = <<"import", "signature">>
                      /\ t.result # NoneRec /\ ~t.result.passed
                      /\ t.result.stage = "signature"

\* C12 witness: with test inputs supplied, a file with a syntax error failed
\* at import and a file whose skill lacks a parameter failed at signature
C12_Witness ==
    /\ mode = "test_skill" /\ Len(tests) = 2
    /\ tests[1].spec.test_inputs /\ ~tests[1].content.syntax_ok
    /\ tests[1].result = TestResult(FALSE, "import", "load error")
    /\ tests[2].spec.test_inputs /\ tests[2].spec.parameters = {"path"}
    /\ tests[2].content = Generated("missing_param", tests[2].spec)
    /\ tests[2].result = TestResult(FALSE, "signature", "missing parameter")
    /\ ~tests[2].executed

\* C13: without test_inputs the Tester never executes the skill and a
\* signature pass is returned as passed with stage "signature"; with
\* test_inputs the result is passed, with stage "execution", only if the
\* invocation neither raised nor returned a result whose metadata contains
\* an "error" key.
C13_ExecutionStage ==
    mode = "test_skill" =>
        \A k \in 1..Len(tests) :
            LET t == tests[k]
            IN  /\ ~t.spec.test_inputs =>
                      /\ ~t.executed /\ t.result # NoneRec
                      /\ t.result.passed => t.result.stage = "signature"
                /\ (t.spec.test_inputs /\ t.result # NoneRec
                        /\ t.result.passed) =>
                      /\ t.result.stage = "execution"
                      /\ t.out = "ok"

----------------------------------------------------------------------------
(* Further properties of Agent.run.                                        *)

\* C14: a build() that returns None does not abort the run: unless a
\* collaborator raises one of its exceptions, the run still re-plans, executes the re-planned
\* plan and publishes TaskComplete, not TaskFailed.
C14_BuildFailureNotFatal ==
    (/\ mode = "run"
     /\ caught \notin {StartSessionError, RecallError, PlannerError,
                       AppendError, CodeError, SkillError, CompleteError}
     /\ \E k \in 1..Len(builds) : builds[k].result = NoneRec) =>
        /\ \A k \in 1..Len(published) : published[k].type # "TaskFailed"
        /\ pc = "done" =>
              /\ outcome = "returned"
              /\ planCalls = 2 /\ Len(plans) = 2 /\ executed = plans[2]
              /\ published[Len(published)].type = "TaskComplete"
              /\ session_id # 0 =>
                    sessions[session_id].status = "completed"

\* C14 witness: the only build failed, and the run completed after
\* executing a re-planned step
C14_Witness ==
    /\ mode = "run" /\ pc = "done" /\ caught = None
    /\ Len(builds) = 1 /\ builds[1].result = NoneRec
    /\ builds[1].codeCalls = 3
    /\ planCalls = 2 /\ Len(results) = 1
    /\ published[Len(published)].type = "TaskComplete"

\* C15: whatever happens during learning extraction after a successful
\* execution, TaskComplete is still published, TaskFailed is not, and the
\* session stays "completed".
C15_ExtractionBestEffort ==
    (mode = "run" /\ extraction # None) =>
        /\ pc = "done" /\ caught = None
        /\ published[Len(published)].type = "TaskComplete"
        /\ \A k \in 1..Len(published) : published[k].type # "TaskFailed"
        /\ session_id # 0 => sessions[session_id].status = "completed"

\* C15 witness: the learning store raised on record, and the run completed
C15_Witness ==
    /\ mode = "run" /\ pc = "done" /\ memory
    /\ extraction = "record_error" /\ learned = 0
    /\ published[Len(published)].type = "TaskComplete"
    /\ sessions[session_id].status = "completed"

\* _slugify of the descriptions a plan may carry
C16_Slug ==
    [d \in {DescCountLines, DescCountLines2, DescOther} |-> _slugify(d)]

\* The names the first plan asks for, in the order the claim gives:
\* skills_to_create entries, then "unknown" step descriptions, slugified
C16_Asked ==
    LET unknown == SelectSeq(plans[1].steps, IsUnknown)
    IN  [k \in 1..Len(plans[1].skills_to_create) |->
            C16_Slug[plans[1].skills_to_create[k]]]
        \o [k \in 1..Len(unknown) |-> C16_Slug[unknown[k].description]]

C16_FirstAsked(asked, name) ==
    CHOOSE k \in 1..Len(asked) :
        /\ asked[k] = name
        /\ \A j \in 1..(k - 1) : asked[j] # name

\* C16: within one run the Builder is invoked at most once per slugified
\* skill name, for names asked by skills_to_create first and by "unknown"
\* steps after them; once the run re-plans, every asked name was built.
C16_OneBuildPerName ==
    (mode = "run" /\ builds # <<>>) =>
        LET asked == C16_Asked
        IN  /\ \A i \in 1..Len(builds) :
                  \E k \in 1..Len(asked) : asked[k] = builds[i].name
            /\ \A i, j \in 1..Len(builds) :
                  i < j =>
                     /\ builds[i].name # builds[j].name
                     /\ C16_FirstAsked(asked, builds[i].name)
                            < C16_FirstAsked(asked, builds[j].name)
            /\ planCalls = 2 =>
                  \A k \in 1..Len(asked) :
                     \E i \in 1..Len(builds) : builds[i].name = asked[k]

\* C16 witness: a skills_to_create entry and an "unknown" step description
\* that slugify to the same name, one build, and the run went on to re-plan
C16_Witness ==
    /\ mode = "run" /\ planCalls = 2 /\ Len(builds) = 1
    /\ plans[1].skills_to_create = <<DescCountLines2>>
    /\ Len(plans[1].steps) = 1 /\ IsUnknown(plans[1].steps[1])
    /\ builds[1].name = SlugCountLines

\* What a queue has yielded and still holds is exactly the events published
\* between its subscribe() and its unsubscribe(), in publish order
C17_Windows ==
    \A q \in DOMAIN taps :
        LET tap  == taps[q]
            last == IF tap.unsubscribed_at = -1 THEN Len(published)
                    ELSE tap.unsubscribed_at
        IN  /\ InList(subscribers, q) <=> tap.unsubscribed_at = -1
            /\ tap.received \o queues[q]
                   = SubSeq(published, tap.subscribed_at + 1, last)

\* A publish with no subscribers changes no queue and raises nothing
C17_NoSubscribers ==
    (Len(published') = Len(published) + 1 /\ subscribers = <<>>) =>
        UNCHANGED <<queues, subscribers, taps, caught>>

\* C17: publish puts the event on the queue of every subscriber registered
\* at that moment and on no other; each queue yields events in publish
\* order; a queue receives no event published before its subscribe() or
\* after its unsubscribe(); publishing with no subscribers is a no-op.
C17_PublishDelivery ==
    []C17_Windows /\ [][C17_NoSubscribers]_vars

\* C17 witness: a queue subscribed after the first publish and unsubscribed
\* before the last one, its holder having taken the event in between, while
\* an earlier queue is still subscribed
C17_Witness ==
    /\ mode = "bus" /\ Len(published) = 3 /\ Len(taps) = 2
    /\ taps[1].unsubscribed_at = -1 /\ Len(queues[1]) = 3
    /\ taps[2].subscribed_at = 1 /\ taps[2].unsubscribed_at = 2
    /\ taps[2].received = <<published[2]>> /\ queues[2] = <<>>

----------------------------------------------------------------------------
(* Properties of the Scratchpad.                                           *)

C18_RanBefore(k) == IF k = 1 THEN 0 ELSE log[k - 1].ran

\* Call k sent a cell that never ends to a running subprocess
C18_TimedOutAt(k) ==
    /\ log[k].op = "execute" /\ log[k].code.op = "hang"
    /\ log[k].ran = C18_RanBefore(k) + 1

C18_NoResetBetween(k, j) == \A i \in (k + 1)..(j - 1) : log[i].op # "reset"

\* C18: when a cell does not deliver its result within the timeout, execute
\* returns a Cell with the timeout error and records it, the subprocess is
\* killed, every later execute before a reset returns the "not running"
\* Cell without any code being run, and the execute after a reset runs its
\* code again.
C18_TimeoutContained ==
    (mode = "pad") =>
        \A k \in 1..Len(log) :
            C18_TimedOutAt(k) =>
                /\ log[k].cell.error = TimeoutMsg
                /\ k = Len(log) =>
                      /\ pad._proc # NoneRec /\ ~pad._proc.alive
                      /\ pad.cells[Len(pad.cells)] = log[k].cell
                /\ \A j \in (k + 1)..Len(log) :
                      /\ (log[j].op = "execute" /\ C18_NoResetBetween(k, j)) =>
                            /\ log[j].cell.error = NotRunningMsg
                            /\ log[j].ran = C18_RanBefore(j)
                      /\ (/\ log[j].op = "execute" /\ log[j - 1].op = "reset")
                            =>
                            /\ log[j].cell.error # NotRunningMsg
                            /\ log[j].code.op # "blank" =>
                                  log[j].ran = C18_RanBefore(j) + 1

\* C18 witness: a timeout, a refused cell, a reset, and a cell that ran
C18_Witness ==
    /\ mode = "pad" /\ Len(log) = 4
    /\ C18_TimedOutAt(1) /\ log[1].cell.error = TimeoutMsg
    /\ log[2].op = "execute" /\ log[2].cell.error = NotRunningMsg
    /\ log[3].op = "reset"
    /\ log[4].op = "execute" /\ log[4].code.op = "assign"
    /\ log[4].cell.error = None /\ log[4].ran = 2

\* Call k is an assignment that the subprocess ran
C19_AssignedAt(k) ==
    /\ log[k].op = "execute" /\ log[k].code.op = "assign"
    /\ ~log[k].raised /\ log[k].cell.error = None

\* Between calls k and j the subprocess was neither restarted nor killed,
\* and the name was not assigned again
C19_Undisturbed(k, j) ==
    \A i \in (k + 1)..(j - 1) :
        /\ log[i].op \notin {"reset", "close"}
        /\ log[i].code.op \notin {"hang", "exit", "assign"}

\* C19: in one subprocess lifetime a name assigned by an earlier cell is
\* printed with its value by a later cell; right after reset() the cell list
\* is empty, and printing a name not assigned since the reset gives an error
\* string bearing NameError.
C19_NamespacePersists ==
    (mode = "pad") =>
        \A k \in 1..Len(log) :
            /\ C19_AssignedAt(k) =>
                  \A j \in (k + 1)..Len(log) :
                     (/\ log[j].op = "execute" /\ log[j].code.op = "print"
                      /\ log[j].code.name = log[k].code.name
                      /\ C19_Undisturbed(k, j)) =>
                         /\ log[j].cell.stdout = <<log[k].code.value>>
                         /\ log[j].cell.error = None
            /\ log[k].op = "reset" =>
                  /\ k = Len(log) => pad.cells = <<>>
                  /\ \A j \in (k + 1)..Len(log) :
                        (/\ log[j].op = "execute" /\ log[j].code.op = "print"
                         /\ C19_Undisturbed(k, j)) =>
                            /\ log[j].cell.error = NameErrorTrace
                            /\ log[j].cell.stdout = <<>>

\* C19 witness: x = 1, print(x) prints 1, reset, print(x) fails
C19_Witness ==
    /\ mode = "pad" /\ Len(log) = 4
    /\ C19_AssignedAt(1) /\ log[1].code.value = 1
    /\ log[2].code.op = "print" /\ log[2].cell.stdout = <<1>>
    /\ log[3].op = "reset"
    /\ log[4].code.op = "print" /\ log[4].cell.error = NameErrorTrace
    /\ Len(pad.cells) = 1

\* One call on a pad that has an environment
C20_Step ==
    (mode = "pad" /\ Len(log') = Len(log) + 1 /\ pad._venv_dir # 0) =>
        LET call == log'[Len(log')]
        IN  /\ call.op = "reset" =>
                  /\ pad'._venv_dir = pad._venv_dir /\ venvs' = venvs
                  /\ Running(pad') /\ pad'._proc.python = pad._venv_dir
            /\ call.op = "close" =>
                  /\ ~venvs'[pad._venv_dir].exists
                  /\ pad'._venv_dir = 0 /\ pad'._proc = NoneRec
            /\ (/\ call.op = "execute" /\ ~call.raised
                /\ call.cell.error = TimeoutMsg) =>
                  /\ pad'._venv_dir = pad._venv_dir /\ venvs' = venvs
                  /\ ~Running(pad')

C21_DeathIsData ==
    (mode = "pad") =>
        \A k \in 1..Len(log) :
            (log[k].op = "execute" /\ log[k].lost) =>
                /\ ~log[k].raised
                /\ log[k].cell.error \notin {None, ""}

\* Between calls k and j the name was not dropped from the manager
C22_Kept(k, j, name) ==
    \A i \in (k + 1)..(j - 1) :
        /\ log[i].op # "close_all"
        /\ ~(log[i].op = "remove" /\ log[i].name = name)

C22_MadeBefore(k) == IF k = 1 THEN 0 ELSE log[k - 1].made

\* Call j is the first use of its name since the name was last dropped
C22_FirstUse(j) ==
    \A k \in 1..(j - 1) :
        (log[k].op = "get_or_create" /\ log[k].name = log[j].name)
            => ~C22_Kept(k, j, log[j].name)

C22_Closed(p) == p._proc = NoneRec /\ p._venv_dir = 0

\* C22: get_or_create(name) constructs and starts a pad only on the first
\* use of a name and returns the same pad on every later call until the name
\* is removed; every pad that remove(name) or close_all() dropped is closed,
\* and after close_all() no pad is listed.
C22_ManagerKeepsPads ==
    (mode = "manager") =>
        /\ \A j \in 1..Len(log) :
              /\ log[j].op = "get_or_create" =>
                    /\ log[j].made = C22_MadeBefore(j)
                                        + (IF C22_FirstUse(j) THEN 1 ELSE 0)
                    /\ C22_FirstUse(j) => log[j].pad = log[j].made
                    /\ \A k \in 1..(j - 1) :
                          (/\ log[k].op = "get_or_create"
                           /\ log[k].name = log[j].name
                           /\ C22_Kept(k, j, log[j].name)) =>
                              log[j].pad = log[k].pad
              /\ log[j].op # "get_or_create" =>
                    log[j].made = C22_MadeBefore(j)
              /\ (log[j].op = "close_all" /\ j = Len(log)) => _pads = <<>>
        /\ \A i \in 1..Len(instances) :
              IF \E k \in 1..Len(_pads) : _pads[k].pad = i
              THEN Running(instances[i])
              ELSE C22_Closed(instances[i])

\* C22 witness: a pad used twice, a second pad, and both closed by close_all
C22_Witness ==
    /\ mode = "manager" /\ Len(log) = 4
    /\ log[1].op = "get_or_create" /\ log[2].op = "get_or_create"
    /\ log[1].name = log[2].name /\ log[1].pad = log[2].pad
    /\ log[3].op = "get_or_create" /\ log[3].pad = 2
    /\ log[4].op = "close_all" /\ _pads = <<>>
    /\ Len(instances) = 2
    /\ C22_Closed(instances[1]) /\ C22_Closed(instances[2])

----------------------------------------------------------------------------
(* Properties of the TimeEstimator.                                        *)

\* 60 times the sum of the means of the listed names that have history
\* (a history has at most 5 entries, so every mean times 60 is whole)
RECURSIVE C23_Means60(_)
C23_Means60(names) ==
    IF names = <<>> THEN 0
    ELSE LET h == _history[Head(names)]
         IN  (IF h = <<>> THEN 0 ELSE (60 * SumSeq(h)) \div Len(h))
                 + C23_Means60(Tail(names))

\* C23: estimate_plan(names) returns the sum of the mean durations of the
\* names that have history, a name without history adding nothing, and
\* returns None exactly when no listed name has history.
C23_EstimatePlan ==
    (mode = "estimator" /\ log # <<>> /\ log[Len(log)].op = "estimate_plan")
        => LET call == log[Len(log)]
               known == {k \in 1..Len(call.names) :
                            _history[call.names[k]] # <<>>}
           IN  /\ call.result = NoneRec <=> known = {}
               /\ call.result # NoneRec =>
                     60 * call.result.num
                        = call.result.den * C23_Means60(call.names)

\* C23 witness: one name with the durations 0 and 1, the other without
\* history, and the estimate of both is 1/2
C23_Witness ==
    /\ mode = "estimator" /\ Len(log) = 3
    /\ _history["read_file"] = <<0, 1>> /\ _history["write_file"] = <<>>
    /\ log[3].op = "estimate_plan"
    /\ log[3].names = <<"read_file", "write_file">>
    /\ log[3].result # NoneRec
    /\ 2 * log[3].result.num = log[3].result.den

----------------------------------------------------------------------------
(* Properties of the SkillRegistry.                                        *)

\* The calls before call j that registered a skill named `name`
C24_Registered(j, name) ==
    {k \in 1..(j - 1) : log[k].op = "register" /\ log[k].name = name}

C24_Max(S) == CHOOSE k \in S : \A i \in S : i <= k

\* What the registry should give for `name` when call j is made
C24_Latest(j, name) ==
    IF C24_Registered(j, name) = {} THEN NoneRec
    ELSE log[C24_Max(C24_Registered(j, name))].skill

\* C24: after any sequence of register calls the registry holds exactly one
\* entry per registered name, the skill registered last under that name, and
\* get(name) returns None for a name never registered.
C24_OneEntryPerName ==
    (mode = "registry") =>
        /\ \A i, j \in 1..Len(registry) :
              i # j => registry[i].name # registry[j].name
        /\ \A name \in RegistryNames :
              /\ Holds(registry, name)
                    <=> C24_Registered(Len(log) + 1, name) # {}
              /\ \A k \in 1..Len(registry) :
                    registry[k].name = name =>
                       registry[k] = C24_Latest(Len(log) + 1, name)
        /\ \A j \in 1..Len(log) :
              log[j].op = "get" => log[j].result = C24_Latest(j, log[j].name)

\* C24 witness: two skills registered as "dup", get gives the second, the
\* registry has one entry, and get of a name never registered gives None
C24_Witness ==
    /\ mode = "registry" /\ Len(log) = 4
    /\ log[1].op = "register" /\ log[1].skill.description = "first"
    /\ log[2].op = "register" /\ log[2].skill.description = "second"
    /\ log[1].name = "dup" /\ log[2].name = "dup"
    /\ log[1].skill.parameters # log[2].skill.parameters
    /\ log[3].op = "get" /\ log[3].name = "dup"
    /\ log[3].result = log[2].skill
    /\ log[4].op = "get" /\ log[4].name = "nonexistent"
    /\ log[4].result = NoneRec
    /\ Len(registry) = 1

\* A catalog() call leaves the registry as it is
C29_CatalogStep ==
    (/\ mode = "registry" /\ Len(log') = Len(log) + 1
     /\ log'[Len(log')].op = "catalog") => registry' = registry

\* What catalog() returned is the sentinel exactly when the registry was
\* empty, and two calls with no register between them returned the same
C29_CatalogResults ==
    (mode = "registry") =>
        \A j \in 1..Len(log) :
            log[j].op = "catalog" =>
                /\ log[j].result
                      = <<CatalogLine("No skills available.", "", "", <<>>)>>
                   <=> \A k \in 1..(j - 1) : log[k].op # "register"
                /\ \A i \in 1..(j - 1) :
                      (/\ log[i].op = "catalog"
                       /\ \A k \in (i + 1)..(j - 1) : log[k].op # "register")
                          => log[i].result = log[j].result

----------------------------------------------------------------------------
(* Properties of Planner.plan.                                             *)

C25_NoCreatePlan(r) ==
    \A k \in 1..Len(r.tool_calls) : r.tool_calls[k].name # "create_plan"

C25_Shape(p) ==
    /\ Len(p.steps) = 1 /\ p.steps[1].skill_name = RUN_COMMAND
    /\ p.estimated_time_seconds = 5 /\ p.skills_to_create = <<>>
    /\ ~_needs_skill_building(p)

\* C25 as stated: without a create_plan tool call plan() returns a one-step
\* run_command plan with estimate 5, no skills_to_create, and the model's
\* text as reasoning.
C25_FallbackPlan ==
    (mode = "planner") =>
        \A k \in 1..Len(log) :
            C25_NoCreatePlan(log[k].response) =>
                /\ C25_Shape(log[k].result)
                /\ log[k].result.reasoning = log[k].response.content

\* C25, amended: the reasoning is the model's text when there is some, and
\* "Direct execution" when the text is empty.
C25_FallbackPlanOrDefault ==
    (mode = "planner") =>
        \A k \in 1..Len(log) :
            C25_NoCreatePlan(log[k].response) =>
                /\ C25_Shape(log[k].result)
                /\ log[k].response.content # "" =>
                      log[k].result.reasoning = log[k].response.content
                /\ log[k].response.content = "" =>
                      log[k].result.reasoning = "Direct execution"

\* C25 witness: a text answer, and an answer whose only tool call is not
\* create_plan and whose text is empty
C25_Witness ==
    /\ mode = "planner" /\ Len(log) = 2
    /\ log[1].response = Response(<<>>, "I'll just do it directly")
    /\ log[1].result.reasoning = "I'll just do it directly"
    /\ log[2].response = Response(<<ToolCall("other", NoneRec)>>, "")
    /\ log[2].result.reasoning = "Direct execution"
    /\ log[2].result.estimated_time_seconds = 5

----------------------------------------------------------------------------
(* The happy path of Agent.run (agent.py, test_run_happy_path).            *)

\* A finished run without memory stores whose only Planner call returned a
\* one-step plan using list_files, a skill the registry holds, and whose
\* skill call returned
C26_HappyPath ==
    /\ mode = "run" /\ pc = "done" /\ ~memory /\ ~learnings
    /\ planCalls = 1 /\ Len(plans) = 1
    /\ Len(plans[1].steps) = 1
    /\ plans[1].steps[1].skill_name = LIST_FILES
    /\ Get(registry, LIST_FILES) # NoneRec
    /\ Len(results) = 1

\* The events the scenario lists: planning, "Plan ready - 1 step(s)",
\* "Step 1/1: <description>", TaskComplete
C26_Listed ==
    <<StatusUpdate("planning", Msg("Analyzing task", <<>>, 0, 0)),
      StatusUpdate("planning", Msg("Plan ready", <<>>, 1, 0)),
      StatusUpdate("executing",
          Msg("Step", plans[1].steps[1].description, 1, 1)),
      TaskComplete(summary)>>

C26_SummaryNamesSkill ==
    /\ Len(summary.lines) = 1
    /\ summary.lines[1].skill_name = LIST_FILES

\* C26 as stated: on the happy path the events published are exactly, in
\* order, planning, planning "Plan ready - 1 step(s)", executing
\* "Step 1/1: ...", complete, and the summary names list_files.
C26_EventsAsListed ==
    C26_HappyPath => (published = C26_Listed /\ C26_SummaryNamesSkill)

\* C26: on the happy path the events published are, in order, the
\* skill_discovery status, then planning, planning "Plan ready - 1 step(s)",
\* executing "Step 1/1: ...", complete, and the summary names list_files.
C26_HappyPathEvents ==
    C26_HappyPath =>
        /\ published =
              <<StatusUpdate("skill_discovery",
                    Msg("Inspecting available skills", <<>>, 0, 0))>>
              \o C26_Listed
        /\ C26_SummaryNamesSkill

\* C26 witness: a happy-path run has finished with TaskComplete
C26_Witness ==
    /\ C26_HappyPath /\ outcome = "returned" /\ caught = None
    /\ ~user_skills_dir
    /\ Len(published) = 5
    /\ published[5].type = "TaskComplete"
    /\ published[5].summary.lines[1].skill_name = LIST_FILES

----------------------------------------------------------------------------
(* agentic_loop (skill/agentic.py).  The content of a message is kept as   *)
(* a list of blocks; a content that is a plain string is kept as the list  *)
(* of one "str" block.                                                     *)

MaxTurns == 2        \* largest max_turns a caller passes

\* The values of max_turns a caller passes: any int
TurnLimits == -1..MaxTurns

UnboundLocalError == "cannot access local variable 'response'"
LLMError == "LLM call failed"

Str(text) == <<[type |-> "str", text |-> text]>>
TextBlock(text) == [type |-> "text", text |-> text]
ToolUse(tc) ==
    [type |-> "tool_use", id |-> tc.id, name |-> tc.name, input |-> tc.input]
ToolResult(id, content) ==
    [type |-> "tool_result", tool_use_id |-> id, content |-> content]
Message(role, content) == [role |-> role, content |-> content]

\* A tool call with its id
IdToolCall(id, name, input) == [id |-> id, name |-> name, input |-> input]

\* assistant_content: the text block, if the response has text, then one
\* tool_use block per tool call
AssistantContent(r) ==
    (IF r.content # "" THEN <<TextBlock(r.content)>> ELSE <<>>)
    \o [k \in 1..Len(r.tool_calls) |-> ToolUse(r.tool_calls[k])]

\* What llm.complete may answer inside the loop
LoopResponses ==
    {Response(tcs, c) :
        tcs \in {<<>>, <<IdToolCall("tc_1", "loop", NoneRec)>>,
                 <<IdToolCall("tc_1", "loop", NoneRec),
                   IdToolCall("tc_2", "loop", NoneRec)>>},
        c \in {"", "again."}}

LoopReturn(s, value) ==
    [s EXCEPT !.pc = "done", !.outcome = "returned", !.returned = value]

LoopRaise(s, exc) ==
    [s EXCEPT !.pc = "done", !.outcome = "raised", !.pending = exc]

\* for _ in range(max_turns): the next iteration, or the statement after
\* the loop, `return response.content`, where `response` is bound only if
\* an iteration has run
LoopTop(s) ==
    IF s.turns < s.max_turns
    THEN [s EXCEPT !.turns = @ + 1, !.pc = "complete"]
    ELSE IF s.resp = NoneRec THEN LoopRaise(s, UnboundLocalError)
         ELSE LoopReturn(s, s.resp.content)

agentic_loop(s, limit) ==
    LoopTop([s EXCEPT !.max_turns = limit, !.turns = 0,
                      !.resp = NoneRec,
                      !.messages = <<Message("user", Str("go"))>>])

\* llm.complete returned r
AfterComplete(s, r) ==
    LET s1 == [s EXCEPT !.resp = r, !.log = Append(@, r)]
    IN  IF r.tool_calls = <<>> THEN LoopReturn(s1, r.content)
        ELSE [s1 EXCEPT
                !.messages = Append(@, Message("assistant",
                                               AssistantContent(r))),
                !.tool_results = <<>>, !.pc = "handle_tool"]

\* handle_tool returned, or raised and `result` is the error text
AfterHandleTool(s, result) ==
    LET tc  == s.resp.tool_calls[Len(s.tool_results) + 1]
        trs == Append(s.tool_results, ToolResult(tc.id, result))
    IN  IF Len(trs) < Len(s.resp.tool_calls)
        THEN [s EXCEPT !.tool_results = trs]
        ELSE LoopTop([s EXCEPT !.tool_results = trs,
                               !.messages = Append(@, Message("user", trs))])

AgenticLoopCall ==
    /\ mode = "agentic_loop" /\ pc = "start"
    /\ \E limit \in TurnLimits : Commit(agentic_loop(St, limit))

CompleteReturns ==
    /\ mode = "agentic_loop" /\ pc = "complete"
    /\ \/ \E r \in LoopResponses : Commit(AfterComplete(St, r))
       \/ Commit(LoopRaise(St, LLMError))

HandleToolReturns ==
    /\ mode = "agentic_loop" /\ pc = "handle_tool"
    /\ \E result \in {"ok", "Error: boom"} :
          Commit(AfterHandleTool(St, result))

InitLoop ==
    /\ mode = "agentic_loop"
    /\ memory = FALSE /\ learnings = FALSE /\ user_skills_dir = FALSE
    /\ channel = "ok"
    /\ InitSkills(FALSE)
    /\ plan = NoneRec /\ spec = NoneRec
    /\ InitLocals

NextLoop ==
    \/ AgenticLoopCall
    \/ CompleteReturns
    \/ HandleToolReturns

SpecLoop == InitLoop /\ [][NextLoop]_vars

\* The calls of a finished agentic_loop whose LLM calls all returned, for a
\* max_turns of at least 1: at most max_turns calls, every response but the
\* last carries tool calls, the text of the last is returned, and a last
\* response carrying tool calls is the max_turns-th
C27_WithinPositiveLimit ==
    (mode = "agentic_loop" /\ pc = "done" /\ pending # LLMError
     /\ max_turns >= 1) =>
        /\ outcome = "returned"
        /\ Len(log) >= 1 /\ Len(log) <= max_turns
        /\ \A k \in 1..(Len(log) - 1) : log[k].tool_calls # <<>>
        /\ returned = log[Len(log)].content
        /\ log[Len(log)].tool_calls # <<>> => Len(log) = max_turns

\* C27: for every max_turns, a finished agentic_loop whose LLM calls all
\* returned has made at most max_turns calls and has returned: the text of
\* the first response without tool calls, or, when every response carried
\* tool calls, the text of the last of exactly max_turns responses.
C27_AtMostMaxTurns ==
    (mode = "agentic_loop" /\ pc = "done" /\ pending # LLMError) =>
        /\ outcome = "returned"
        /\ Len(log) <= max_turns
        /\ \A k \in 1..(Len(log) - 1) : log[k].tool_calls # <<>>
        /\ Len(log) >= 1 => returned = log[Len(log)].content
        /\ (\A k \in 1..Len(log) : log[k].tool_calls # <<>>) =>
              Len(log) = max_turns

----------------------------------------------------------------------------
(* ChatSession.turn (chat.py).  `planCalls` counts the LLMClient.plan      *)
(* calls of the current turn, `ran` the task callbacks that raised, and    *)
(* `log` holds one record per finished turn.                               *)

MaxChatTurns == 2    \* calls of turn on one ChatSession
MaxToolRounds == 2   \* responses with tool calls within one turn

TaskError == "task raised"
ConnectionResetError == "Connection lost"

TaskCompleted == "Task completed: t"
TaskFailedText == "Task failed: task raised"
UnknownTool(name) == <<"Unknown tool: ", name>>

\* What llm.plan may answer as its n-th answer of a turn
ChatResponses(n) ==
    {Response(<<>>, c) : c \in {"", "hi"}}
    \cup IF n > MaxToolRounds THEN {}
         ELSE {Response(<<IdToolCall("tc_1", "execute_task", NoneRec)>>, ""),
               Response(<<IdToolCall("tc_1", "scratchpad", NoneRec)>>, "hi"),
               Response(<<IdToolCall("tc_1", "execute_task", NoneRec),
                          IdToolCall("tc_2", "other", NoneRec)>>, "hi"),
               Response(<<IdToolCall("tc_1", "other", NoneRec),
                          IdToolCall("tc_2", "scratchpad", NoneRec)>>, "")}

ChatReturn(s, reply) ==
    [s EXCEPT !.pc = "done", !.outcome = "returned", !.returned = reply,
              !.log = Append(@, [outcome |-> "returned"])]

ChatRaise(s, exc) ==
    [s EXCEPT !.pc = "done", !.outcome = "raised", !.pending = exc,
              !.log = Append(@, [outcome |-> "raised"])]

\* turn, up to its first await of llm.plan
turn(s, user_input) ==
    [s EXCEPT !._history = Append(@, Message("user", Str(user_input))),
              !.planCalls = 1, !.pc = "llm_plan", !.outcome = "none",
              !.pending = None, !.returned = NoneRec, !.resp = NoneRec,
              !.tool_results = <<>>]

AddResult(s, result_text) ==
    LET tc == s.resp.tool_calls[Len(s.tool_results) + 1]
    IN  [s EXCEPT !.tool_results = Append(@, ToolResult(tc.id, result_text))]

\* for tc in response.tool_calls, from the next tool call up to the next
\* await; after the last one, the tool results are appended to the history
\* and llm.plan is awaited again
RECURSIVE ToolLoop(_)
ToolLoop(s) ==
    IF Len(s.tool_results) >= Len(s.resp.tool_calls)
    THEN [s EXCEPT !._history = Append(@, Message("user", s.tool_results)),
                   !.planCalls = @ + 1, !.pc = "llm_plan"]
    ELSE LET tc == s.resp.tool_calls[Len(s.tool_results) + 1]
         IN  CASE tc.name = "execute_task" -> [s EXCEPT !.pc = "run_task"]
               [] tc.name = "scratchpad" ->
                     [s EXCEPT !.pc = "handle_scratchpad"]
               [] OTHER -> ToolLoop(AddResult(s, UnknownTool(tc.name)))

\* llm.plan returned r
AfterPlan(s, r) ==
    LET s1 == [s EXCEPT !.resp = r]
    IN  IF r.tool_calls # <<>>
        THEN ToolLoop([s1 EXCEPT
                 !._history = Append(@, Message("assistant",
                                                AssistantContent(r))),
                 !.tool_results = <<>>])
        ELSE ChatReturn([s1 EXCEPT
                 !._history = Append(@, Message("assistant",
                                                Str(r.content)))],
                        r.content)

ChatTurn ==
    /\ mode = "chat" /\ pc \in {"start", "done"}
    /\ Len(log) < MaxChatTurns
    /\ Commit(turn(St, "hello"))

LLMPlanReturns ==
    /\ mode = "chat" /\ pc = "llm_plan"
    /\ \/ \E r \in ChatResponses(planCalls) : Commit(AfterPlan(St, r))
       \/ Commit(ChatRaise(St, LLMError))

\* await self._run_task(task_desc) inside try / except Exception
RunTaskReturns ==
    /\ mode = "chat" /\ pc = "run_task"
    /\ \/ Commit(ToolLoop(AddResult(St, TaskCompleted)))
       \/ Commit(ToolLoop(AddResult([St EXCEPT !.ran = @ + 1],
                                    TaskFailedText)))

\* await self._handle_scratchpad(tc.input): it returns a text, or the
\* exception Scratchpad.execute raised leaves turn
HandleScratchpadReturns ==
    /\ mode = "chat" /\ pc = "handle_scratchpad"
    /\ \/ Commit(ToolLoop(AddResult(St, "Code executed successfully")))
       \/ Commit(ChatRaise(St, ConnectionResetError))

InitChat ==
    /\ mode = "chat"
    /\ memory = FALSE /\ learnings = FALSE /\ user_skills_dir = FALSE
    /\ channel = "ok"
    /\ InitSkills(FALSE)
    /\ plan = NoneRec /\ spec = NoneRec
    /\ InitFrame
    /\ _history = <<>> /\ eta_seconds = NoneRec

NextChat ==
    \/ ChatTurn
    \/ LLMPlanReturns
    \/ RunTaskReturns
    \/ HandleScratchpadReturns

SpecChat == InitChat /\ [][NextChat]_vars

C28_IsToolUse(b) == b.type = "tool_use"

C28_HasToolUse(m) ==
    m.role = "assistant" /\ SelectSeq(m.content, C28_IsToolUse) # <<>>

\* Message k is followed by one user message with one tool_result per
\* tool_use, in order, with the matching id
C28_Answered(k) ==
    /\ k < Len(_history)
    /\ _history[k + 1].role = "user"
    /\ LET uses == SelectSeq(_history[k].content, C28_IsToolUse)
           res  == _history[k + 1].content
       IN  /\ Len(res) = Len(uses)
           /\ \A j \in 1..Len(res) :
                 /\ res[j].type = "tool_result"
                 /\ res[j].tool_use_id = uses[j].id

\* The "Task failed" tool results in the history
C28_FailedResults ==
    LET Failed(b) == b.type = "tool_result" /\ b.content = TaskFailedText
        RECURSIVE Count(_)
        Count(k) == IF k = 0 THEN 0
                    ELSE Count(k - 1)
                         + Len(SelectSeq(_history[k].content, Failed))
    IN  Count(Len(_history))

\* Between turns: the callbacks that raised each left a "Task failed"
\* result and never left turn, and a turn that returned appended its reply
\* as a plain-text assistant message
C28_Rest ==
    /\ pending # TaskError
    /\ outcome \in {"none", "returned"} => C28_FailedResults = ran
    /\ outcome = "returned" =>
          _history[Len(_history)] = Message("assistant", Str(returned))

\* While every turn so far has returned, every assistant message with
\* tool_use blocks is answered by the next message
C28_PairedWhileReturning ==
    (/\ mode = "chat" /\ pc \in {"start", "done"}
     /\ \A n \in 1..Len(log) : log[n].outcome = "returned") =>
        /\ \A k \in 1..Len(_history) :
              C28_HasToolUse(_history[k]) => C28_Answered(k)
        /\ C28_Rest

\* C28: between turns, every assistant message of the history that
\* contains tool_use blocks is immediately followed by one user message
\* holding one tool_result per tool_use, in order and with the matching
\* tool_use_id; a raising task callback gives a "Task failed" result and
\* does not leave turn; a turn that returns ends the history with its reply
\* as a plain-text assistant message.
C28_ToolResultsFollow ==
    (mode = "chat" /\ pc \in {"start", "done"}) =>
        /\ \A k \in 1..Len(_history) :
              C28_HasToolUse(_history[k]) => C28_Answered(k)
        /\ pending # TaskError
        /\ outcome = "returned" =>
              _history[Len(_history)] = Message("assistant", Str(returned))

----------------------------------------------------------------------------
(* The terminal event of Agent.run and the status of its session.          *)

C30_Terminal(e) == e.type \in {"TaskComplete", "TaskFailed"}

\* C30: a terminal event is never followed by another event, and a run
\* that has returned has published exactly one terminal event, as its last
\* event; the session the run started is then "completed" if and only if
\* that event is TaskComplete and "failed" if and only if it is TaskFailed,
\* hence never "running".
C30_OneTerminalEvent ==
    mode = "run" =>
        /\ \A k \in 1..Len(published) :
              C30_Terminal(published[k]) => k = Len(published)
        /\ (pc = "done" /\ outcome = "returned") =>
              /\ published # <<>>
              /\ C30_Terminal(published[Len(published)])
              /\ session_id # 0 =>
                    LET last   == published[Len(published)].type
                        status == sessions[session_id].status
                    IN  /\ status = "completed" <=> last = "TaskComplete"
                        /\ status = "failed" <=> last = "TaskFailed"
                        /\ status # "running"

\* C30 witness: complete_session raised, the run returned, its session is
\* "failed" and TaskFailed is the last and only terminal event
C30_Witness ==
    /\ mode = "run" /\ pc = "done" /\ outcome = "returned"
    /\ memory /\ session_id # 0 /\ caught = CompleteError
    /\ sessions[session_id].status = "failed"
    /\ published[Len(published)] = TaskFailed(CompleteError)
    /\ \A k \in 1..(Len(published) - 1) : ~C30_Terminal(published[k])

----------------------------------------------------------------------------
(* Agent.run plans at most twice and builds at most once.                  *)

C31_IsReplan(e) ==
    e.type = "StatusUpdate" /\ e.message.text = "Re-planning"

C31_IsBuilding(e) ==
    e.type = "StatusUpdate" /\ e.phase = "skill_building"

\* At most two Planner calls and one "Re-planning" status, which closes the
\* build phase: no skill_building status follows it; without suspended
\* build the builds are over once the second Planner call is made; and a
\* second plan is executed as returned, its "unknown" steps ending as
\* "Skill not found" results
C31_PlansTwiceBuildsOnce ==
    mode = "run" =>
        /\ planCalls <= 2 /\ Len(plans) <= planCalls
        /\ Len(SelectSeq(published, C31_IsReplan)) <= 1
        /\ \A j, k \in 1..Len(published) :
              (C31_IsReplan(published[j]) /\ C31_IsBuilding(published[k]))
                  => k < j
        /\ planCalls = 2 => (todo = <<>> /\ pc \notin {"code", "test",
                                                       "append_built"})
        /\ (Len(plans) = 2 /\ executed # NoneRec) =>
              /\ executed = plans[2]
              /\ \A k \in 1..Len(results) :
                    executed.steps[k].skill_name = UNKNOWN =>
                        results[k].result.error =
                            [text |-> "Skill not found", name |-> UNKNOWN]
        /\ (pc = "done" /\ outcome = "returned") =>
              published[Len(published)].type \in {"TaskComplete", "TaskFailed"}

\* How far a run has come: the phase it is suspended in and, within the
\* build and execution phases, the builds finished, the attempt, the step
\* and the step result being logged
C31_Rank ==
    CASE pc = "start" -> 0
      [] pc = "start_session" -> 1
      [] pc = "plan1" -> 2
      [] pc = "append_plan" -> 3
      [] pc = "code" -> 10 + 20 * Len(builds) + 3 * attempt + 1
      [] pc = "test" -> 10 + 20 * Len(builds) + 3 * attempt + 2
      [] pc = "append_built" -> 10 + 20 * Len(builds)
      [] pc = "plan2" -> 200
      [] pc = "skill_execute" -> 300 + stepIdx
      [] pc = "append_step" -> 400 + logIdx
      [] pc = "complete_session" -> 500
      [] pc = "extract_learnings" -> 600
      [] pc = "fail_session" -> 700
      [] pc = "done" -> 800

\* Every await a run can be suspended in is one a collaborator answers
C31_Awaits ==
    pc \in {"start", "start_session", "plan1", "append_plan", "code", "test",
            "append_built", "plan2", "skill_execute", "append_step",
            "complete_session", "extract_learnings", "fail_session", "done"}

\* C31: a run calls the Planner at most twice and builds at most once, the
\* second plan is executed as returned, its "unknown" steps ending as
\* "Skill not found" results, and every step of the run takes it further
\* towards its end, which it reaches with a terminal event published: it
\* cannot cycle between planning and building.
C31_NoPlanBuildCycle ==
    /\ [](C31_PlansTwiceBuildsOnce /\ C31_Awaits)
    /\ [][mode = "run" => C31_Rank' > C31_Rank]_vars

\* C31 witness: the second plan still had an "unknown" step and named a
\* skill to create; it was executed as returned and the run completed
C31_Witness ==
    /\ mode = "run" /\ pc = "done" /\ outcome = "returned"
    /\ planCalls = 2 /\ Len(plans) = 2 /\ builds # <<>>
    /\ plans[2].skills_to_create # <<>>
    /\ executed = plans[2] /\ Len(results) = 1
    /\ executed.steps[1].skill_name = UNKNOWN
    /\ results[1].result.error.text = "Skill not found"
    /\ published[Len(published)].type = "TaskComplete"

----------------------------------------------------------------------------
(* The cell protocol between Scratchpad.execute and _BOOT_SCRIPT            *)
(* (scratchpad.py).  A text is the sequence of its lines; the subprocess   *)
(* is taken to answer every cell, and each result frame carries the number *)
(* of the execute() call whose payload it was computed from.               *)

MaxPipeCalls == 3    \* execute() calls on the pad

_CELL_DELIM == "__ANTON_CELL_END__"

\* payload = code + "\n" + _CELL_DELIM + "\n"
Payload(code) == code \o <<_CELL_DELIM>>

\* The loop `for line in _real_stdin`: the cells the lines hold, each
\* ended by a line equal to the delimiter
RECURSIVE ReadCells(_, _)
ReadCells(lines, cell) ==
    IF lines = <<>> THEN <<>>
    ELSE IF Head(lines) = _CELL_DELIM
         THEN <<cell>> \o ReadCells(Tail(lines), <<>>)
         ELSE ReadCells(Tail(lines), Append(cell, Head(lines)))

\* What a line prints when exec'd
Printed(line) ==
    CASE line = "print(1)" -> <<1>>
      [] line = "print(2)" -> <<2>>
      [] OTHER -> <<>>

RECURSIVE Stdout(_)
Stdout(cell) ==
    IF cell = <<>> THEN <<>> ELSE Printed(Head(cell)) \o Stdout(Tail(cell))

\* if not code.strip()
IsBlank(cell) == \A k \in 1..Len(cell) : cell[k] \in {"", " "}

\* The result frame the subprocess writes for one cell
Frame(cell, call) ==
    [stdout |-> IF IsBlank(cell) THEN <<>> ELSE Stdout(cell),
     error |-> None, call |-> call]

\* The frames the subprocess writes for the lines it is sent
Frames(lines, call) ==
    LET cells == ReadCells(lines, <<>>)
    IN  [k \in 1..Len(cells) |-> Frame(cells[k], call)]

\* The texts submitted: one statement, blank code, and code with a line
\* equal to the delimiter, in the middle or at the end
PipeCodes ==
    {<<"print(1)">>, <<"print(2)">>, <<"">>, <<" ", "">>,
     <<"print(1)", _CELL_DELIM, "print(2)">>,
     <<"print(2)", _CELL_DELIM>>}

\* _read_result and the rest of execute: the first frame in the pipe
\* becomes the Cell
ReadFrame(s, code) ==
    LET data == Head(s.pad._proc.stdout)
    IN  [s EXCEPT !.pad._proc.stdout = Tail(@),
                  !.pad.cells = Append(@, Cell(code, data.stdout, <<>>,
                                               data.error)),
                  !.resp = data]

\* stdin.write(payload) and drain: the subprocess reads the payload and
\* writes its frames
WritePayload(s, code, call) ==
    [s EXCEPT !.pad._proc.stdout = @ \o Frames(Payload(code), call)]

PipeExecute ==
    /\ mode = "pipe" /\ pad # NoneRec /\ Len(log) < MaxPipeCalls
    /\ \E code \in PipeCodes :
          LET call == Len(log) + 1
              s1   == WritePayload(St, code, call)
              s2   == ReadFrame(s1, code)
          IN  Commit([s2 EXCEPT !.log = Append(@,
                        [code |-> code,
                         frames |-> Len(Frames(Payload(code), call)),
                         read |-> s2.resp,
                         cell |-> s2.pad.cells[Len(s2.pad.cells)]])])

\* Scratchpad.start: the subprocess runs, nothing is in its pipes
PipeStart ==
    /\ mode = "pipe" /\ pad = NoneRec
    /\ Commit([St EXCEPT !.pad = [cells |-> <<>>,
                                  _proc |-> [stdout |-> <<>>]]])

InitPipe ==
    /\ mode = "pipe"
    /\ memory = FALSE /\ learnings = FALSE /\ user_skills_dir = FALSE
    /\ channel = "ok"
    /\ InitSkills(FALSE)
    /\ plan = NoneRec /\ spec = NoneRec
    /\ InitLocals

NextPipe == PipeStart \/ PipeExecute

SpecPipe == InitPipe /\ [][NextPipe]_vars

C32_NoDelimiter(code) == \A k \in 1..Len(code) : code[k] # _CELL_DELIM

\* One frame per call, the i-th call reads the frame of the i-th code, and
\* the pipe is empty between calls
C32_InStep ==
    /\ \A i \in 1..Len(log) :
          /\ log[i].frames = 1
          /\ log[i].read.call = i
          /\ log[i].cell.stdout = Stdout(log[i].code)
    /\ pad # NoneRec => pad._proc.stdout = <<>>

\* While no submitted code has a line equal to the delimiter, the calls
\* and the frames stay in step
C32_InStepWithoutDelimiter ==
    (mode = "pipe" /\ \A i \in 1..Len(log) : C32_NoDelimiter(log[i].code))
        => C32_InStep

\* C32: whatever the submitted code is, the subprocess writes one result
\* frame per execute() call, the i-th call reads the result of the i-th
\* code, and no frame is left unread in the pipe.
C32_OneFramePerCall ==
    mode = "pipe" => C32_InStep

----------------------------------------------------------------------------
(* ScratchpadManager.get_or_create called from concurrent tasks: a call is *)
(* suspended in `await pad.start()` between its test of `name not in       *)
(* self._pads` and its assignment to self._pads[name].                     *)

MaxTasks == 3        \* concurrent get_or_create calls

\* self._pads[name] = pad, where pad is a position in `instances`
SetPad(pads, name, i) ==
    IF HasPad(pads, name)
    THEN [k \in 1..Len(pads) |->
            IF pads[k].name = name THEN [name |-> name, pad |-> i]
            ELSE pads[k]]
    ELSE Append(pads, [name |-> name, pad |-> i])

InFlight(cs) == \E k \in 1..Len(cs) : cs[k].pc = "start"

\* get_or_create(name) up to its await, or to its return when the name is
\* there; _ensure_venv runs before start suspends
BeginGetOrCreate(s, name) ==
    IF HasPad(s._pads, name)
    THEN [s EXCEPT !.tasks = Append(@,
             [name |-> name, pc |-> "done", own |-> 0,
              got |-> PadOf(s._pads, name), overlap |-> InFlight(s.tasks)])]
    ELSE LET s1 == _ensure_venv([s EXCEPT !.pad = NewScratchpad])
         IN  [s1 EXCEPT
                !.instances = Append(@, s1.pad),
                !.pad = s.pad,
                !.tasks = Append(@,
                    [name |-> name, pc |-> "start",
                     own |-> Len(s.instances) + 1, got |-> 0,
                     overlap |-> InFlight(s.tasks)])]

\* pad.start() returns to call k: self._pads[name] = pad, and
\* self._pads[name] is returned
EndGetOrCreate(s, k) ==
    LET c  == s.tasks[k]
        s1 == start([s EXCEPT !.pad = s.instances[c.own]])
        s2 == [s1 EXCEPT !.instances[c.own] = s1.pad, !.pad = s.pad,
                         !._pads = SetPad(@, c.name, c.own)]
    IN  [s2 EXCEPT !.tasks[k].pc = "done",
                   !.tasks[k].got = PadOf(s2._pads, c.name)]

TaskGetOrCreate ==
    /\ mode = "tasks" /\ log = <<>> /\ Len(tasks) < MaxTasks
    /\ \E name \in PadNames : Commit(BeginGetOrCreate(St, name))

TaskStartReturns ==
    /\ mode = "tasks"
    /\ \E k \in 1..Len(tasks) :
          /\ tasks[k].pc = "start"
          /\ Commit(EndGetOrCreate(St, k))

\* close_all(), once every get_or_create call has returned
TaskCloseAll ==
    /\ mode = "tasks" /\ log = <<>> /\ tasks # <<>> /\ ~InFlight(tasks)
    /\ Commit([close_all(St) EXCEPT !.log = <<[op |-> "close_all"]>>])

InitTasks ==
    /\ mode = "tasks"
    /\ memory = FALSE /\ learnings = FALSE /\ user_skills_dir = FALSE
    /\ channel = "ok"
    /\ InitSkills(FALSE)
    /\ plan = NoneRec /\ spec = NoneRec
    /\ InitLocals

NextTasks == TaskGetOrCreate \/ TaskStartReturns \/ TaskCloseAll

SpecTasks == InitTasks /\ [][NextTasks]_vars

\* One pad started per name, the callers of a name all given the same pad,
\* every running subprocess held by the manager once no call is in flight,
\* and none left running by close_all
C33_OnePadPerName ==
    /\ \A j, k \in 1..Len(tasks) :
          (tasks[j].name = tasks[k].name /\ j # k) =>
              /\ ~(tasks[j].own # 0 /\ tasks[k].own # 0)
              /\ (tasks[j].pc = "done" /\ tasks[k].pc = "done") =>
                    tasks[j].got = tasks[k].got
    /\ (~InFlight(tasks) /\ log = <<>>) =>
          \A i \in 1..Len(instances) :
              Running(instances[i]) =>
                  \E k \in 1..Len(_pads) : _pads[k].pad = i
    /\ log # <<>> =>
          \A i \in 1..Len(instances) : ~Running(instances[i])

\* While no call has begun with another one in flight, one pad is started
\* per name
C33_OneAtATime ==
    (mode = "tasks" /\ \A k \in 1..Len(tasks) : ~tasks[k].overlap)
        => C33_OnePadPerName

\* C33: for any interleaving of concurrent get_or_create calls, at most
\* one pad is started per name, all callers of a name receive the same
\* pad, every started subprocess stays reachable from the manager, and
\* close_all() terminates every subprocess that was started.
C33_ConcurrentGetOrCreate ==
    mode = "tasks" => C33_OnePadPerName

----------------------------------------------------------------------------
(* Agent.run when a skill raises (core/executor.py, core/agent.py).        *)

C34_IsStepEntry(e) == e.type = "step"

C34_IsExecuting(e) == e.type = "StatusUpdate" /\ e.phase = "executing"

C34_Propagated ==
    (mode = "agent" /\ caught = SkillError) =>
        /\ invoked # <<>> /\ invoked[Len(invoked)] = stepIdx
        /\ Len(results) = stepIdx
        /\ Len(SelectSeq(published, C34_IsExecuting)) = stepIdx + 1
        /\ summary = NoneRec
        /\ \A k \in 1..Len(published) : published[k].type # "TaskComplete"
        /\ pc = "done" =>
              /\ published[Len(published)] = TaskFailed(SkillError)
              /\ outcome = "returned"
        /\ memory =>
              /\ SelectSeq(sessions[session_id].transcript,
                           C34_IsStepEntry) = <<>>
              /\ sessions[session_id].status # "completed"

----------------------------------------------------------------------------
(* What build() does to the SkillRegistry (skill/builder.py).              *)

\* The registry when build() was called
C35_Registry0 ==
    IF files0 = EmptyFiles THEN Builtin
    ELSE Register(Builtin, ExistingFile(SlugCountLines).skills[1])

C35_Names == {LIST_FILES, SlugCountLines, OtherName}

\* C35: a build() that returns None leaves the registry as it was, and so
\* does a build() still under way; a build() that returns a skill returns
\* the skill named spec.name of the module it wrote (never the first skill
\* found under another name), registers it, and leaves the entry of every
\* other name as it was.
C35_RegistryFrame ==
    mode = "build" =>
        /\ pc # "done" => registry = C35_Registry0
        /\ (pc = "done" /\ outcome = "returned") =>
              LET result == builds[1].result
                  skills == load_skill_module(ReadFile(files, spec.name))
              IN  /\ result = NoneRec => registry = C35_Registry0
                  /\ result # NoneRec =>
                        /\ result.name = spec.name
                        /\ \E k \in 1..Len(skills) : skills[k] = result
                        /\ Get(registry, spec.name) = result
                        /\ \A name \in C35_Names \ {spec.name} :
                              Get(registry, name) = Get(C35_Registry0, name)

\* C35 witness: the module that passed the Tester defines a skill of another
\* name before the skill asked for, and only the latter is registered
C35_Witness ==
    /\ mode = "build" /\ pc = "done" /\ outcome = "returned"
    /\ builds[1].result # NoneRec
    /\ Len(load_skill_module(ReadFile(files, spec.name))) = 2
    /\ load_skill_module(ReadFile(files, spec.name))[1].name = OtherName
    /\ Get(registry, OtherName) = NoneRec
    /\ Get(registry, spec.name) = builds[1].result

\* C35 witness of the other case: the build gave up and the earlier version
\* of the skill is still the one registered
C35_WitnessNone ==
    /\ mode = "build" /\ pc = "done" /\ outcome = "returned"
    /\ builds[1].result = NoneRec
    /\ files0 # EmptyFiles
    /\ Get(registry, spec.name).origin = "existing"

----------------------------------------------------------------------------
(* The cell list of a Scratchpad (scratchpad.py).                          *)

\* One call on the pad
C36_Step ==
    (mode = "pad" /\ Len(log') = Len(log) + 1) =>
        LET call == log'[Len(log')]
        IN  /\ (call.op = "execute" /\ ~call.raised) =>
                  /\ pad'.cells = Append(pad.cells, call.cell)
                  /\ call.cell.code = call.code
            /\ (call.op = "execute" /\ call.raised) =>
                  pad'.cells = pad.cells
            /\ call.op = "reset" => pad'.cells = <<>>
            /\ call.op \in {"close", "install"} => pad'.cells = pad.cells

\* C36: every execute() that returns appends exactly one Cell, the one it
\* returns, to the end of the cell list, whether the process was not
\* running, the cell timed out, the code raised or it ran to its end; reset
\* empties the list, and close and install_packages leave it as it is.
C36_CellsAccumulate ==
    /\ [][C36_Step]_vars
    /\ [](mode = "pad" /\ pad # NoneRec =>
            Len(pad.cells) <= Len(log)
            /\ (Len(pad.cells) < Len(SelectSeq(log,
                     LAMBDA c : c.op = "execute" /\ ~c.raised)) =>
                   \E k \in 1..Len(log) : log[k].op = "reset"))

\* C36 witness: code that raised, a cell that timed out and a call on the
\* dead process have each left their cell, in the order of the calls
C36_Witness ==
    /\ mode = "pad" /\ Len(log) = 3 /\ Len(pad.cells) = 3
    /\ pad.cells[1].error = NameErrorTrace
    /\ pad.cells[2].error = TimeoutMsg
    /\ pad.cells[3].error = NotRunningMsg
    /\ \A k \in 1..3 : log[k].op = "execute" /\ log[k].cell = pad.cells[k]

----------------------------------------------------------------------------
(* What a run records in the TimeEstimator (core/agent.py).                *)

\* The step of run in which the durations are recorded: the one that goes
\* on to build the summary
C37_Records == mode = "agent" /\ summary = NoneRec /\ summary' # NoneRec

\* The results of the skill `name`, all of them or those with a duration
C37_Of(name) == SelectSeq(results', LAMBDA sr : sr.skill_name = name)
C37_Timed(name) ==
    SelectSeq(results', LAMBDA sr : sr.skill_name = name
                                    /\ sr.duration_seconds > 0)

\* C37 as stated: one record per StepResult of the executed plan
C37_OneRecordPerStepResult ==
    [][C37_Records =>
         \A name \in RunNames :
            Len(_history'[name]) = Len(_history[name]) + Len(C37_Of(name))]_vars

\* C37: once execute_plan has returned and its steps are logged, the run
\* records under each skill name the durations of that skill's StepResults
\* whose duration is greater than 0, in step order; a StepResult with
\* duration 0 (the skill was not found, or no time was measured) adds no
\* record, and no other step of a run changes the TimeEstimator.
C37_RecordsTimedSteps ==
    [][mode = "agent" =>
         IF C37_Records
         THEN \A name \in RunNames :
                 _history'[name] =
                    _history[name] \o
                    [k \in 1..Len(C37_Timed(name)) |->
                        C37_Timed(name)[k].duration_seconds]
         ELSE _history' = _history]_vars

\* C37 witness: a run of two steps has ended; the skill of the first ran
\* for 2 ticks, the skill of the second was not found; the estimator holds
\* one record, and none under the missing skill's name
C37_Witness ==
    /\ mode = "agent" /\ pc = "done" /\ summary # NoneRec
    /\ Len(results) = 2
    /\ results[1].skill_name = LIST_FILES /\ results[1].duration_seconds = 2
    /\ results[2].skill_name = SlugCountLines
    /\ results[2].duration_seconds = 0
    /\ _history[LIST_FILES] = <<2>> /\ _history[SlugCountLines] = <<>>

----------------------------------------------------------------------------
(* A run whose first plan asks for no new skill (core/agent.py).           *)

C38_NothingToBuild ==
    /\ mode = "run" /\ plans # <<>>
    /\ plans[1].skills_to_create = <<>>
    /\ \A k \in 1..Len(plans[1].steps) :
          plans[1].steps[k].skill_name # UNKNOWN

\* C38: if the first plan has no step named "unknown" and an empty
\* skills_to_create, the Builder is never invoked (no build, no call of the
\* code generator, no skill_building status) and the Planner is called
\* exactly once in that run: the plan executed is the first plan.
C38_NoBuildNoReplan ==
    C38_NothingToBuild =>
        /\ builds = <<>> /\ codeCalls = 0 /\ todo = <<>>
        /\ \A k \in 1..Len(published) :
              published[k].phase # "skill_building"
        /\ planCalls = 1 /\ Len(plans) = 1
        /\ pc \notin {"code", "test", "append_built", "plan2"}
        /\ executed # NoneRec => executed = plans[1]

\* C38 witness: with a user skills directory, a run whose plan has one step
\* for a registered skill completed after one Planner call
C38_Witness ==
    /\ C38_NothingToBuild /\ user_skills_dir
    /\ pc = "done" /\ outcome = "returned" /\ caught = None
    /\ Len(plans[1].steps) = 1 /\ plans[1].steps[1].skill_name = LIST_FILES
    /\ planCalls = 1 /\ executed = plans[1] /\ Len(results) = 1
    /\ published[Len(published)].type = "TaskComplete"

----------------------------------------------------------------------------
(* The ETA of the "Plan ready" status (core/agent.py).                     *)

\* The positions of the "Plan ready" statuses a step publishes
C39_PlanReady ==
    {k \in (Len(published) + 1)..Len(published') :
        /\ published'[k].type = "StatusUpdate"
        /\ published'[k].message.text = "Plan ready"}

C39_HasHistory(name) == _history[name] # <<>>

\* a = b, for two fractions
C39_Equal(a, b) == a.num * b.den = b.num * a.den

\* The sum, over the steps from k on whose skill has history, of the mean of
\* the durations recorded for that skill
RECURSIVE C39_SumOfMeans(_, _)
C39_SumOfMeans(steps, k) ==
    IF k > Len(steps) THEN Fraction(0, 1)
    ELSE LET rest == C39_SumOfMeans(steps, k + 1)
             h    == _history[steps[k].skill_name]
         IN  IF h = <<>> THEN rest
             ELSE Fraction(rest.num * Len(h) + SumSeq(h) * rest.den,
                           rest.den * Len(h))

C39_Step ==
    mode = "agent" =>
        \A k \in C39_PlanReady :
           LET eta == published'[k].eta_seconds
               p   == plan'
           IN  IF \E j \in 1..Len(p.steps) :
                      C39_HasHistory(p.steps[j].skill_name)
               THEN /\ eta # NoneRec
                    /\ C39_Equal(eta, C39_SumOfMeans(p.steps, 1))
               ELSE IF p.estimated_time_seconds > 0
               THEN /\ eta # NoneRec
                    /\ C39_Equal(eta, Fraction(p.estimated_time_seconds, 1))
               ELSE eta = NoneRec

\* C39: the ETA of the "Plan ready" status is the TimeEstimator's
\* estimate_plan value (the sum of the mean recorded durations of the
\* plan's skills that have history) whenever a skill of the plan has
\* recorded history; otherwise it is the plan's estimated_time_seconds when
\* that is greater than 0, and otherwise it is absent.
C39_PlanReadyEta ==
    /\ [][C39_Step]_vars
    /\ [](mode = "agent" =>
            \A name \in RunNames : \A k \in 1..Len(_history[name]) :
               _history[name][k] > 0)

\* C39 witness: in a later run of the Agent the plan carries its own
\* estimate of 3 and names a skill with the recorded durations 1 and 2 and
\* a skill without history; the status carries the mean 3/2
C39_Witness ==
    /\ mode = "agent" /\ pc = "skill_execute" /\ Len(published) >= 3
    /\ _history[LIST_FILES] = <<1, 2>> /\ _history[SlugCountLines] = <<>>
    /\ plan.estimated_time_seconds = 3 /\ Len(plan.steps) = 2
    /\ plan.steps[1].skill_name = LIST_FILES
    /\ plan.steps[2].skill_name = SlugCountLines
    /\ published[3].message.text = "Plan ready"
    /\ published[3].eta_seconds # NoneRec
    /\ C39_Equal(published[3].eta_seconds, Fraction(3, 2))

----------------------------------------------------------------------------
(* The ETA of the executing statuses (core/executor.py).                   *)

\* The statuses a step of execute_plan publishes: the k-th status is that of
\* step k, begun with k - 1 steps completed
C40_Step ==
    mode = "execute_plan" =>
        \A k \in (Len(published) + 1)..Len(published') :
           LET eta == published'[k].eta_seconds
               c   == k - 1
               N   == Len(plan.steps)
           IN  /\ published'[k].phase = "executing"
               /\ published'[k].message.n = k
               /\ IF c = 0 THEN eta = eta_seconds
                  ELSE /\ eta # NoneRec
                       /\ eta.den > 0 /\ eta.num >= 0
                       /\ eta.num * c = elapsed' * (N - c) * eta.den

====
